---- MODULE Spec2Model ----
(***************************************************************************)
(* The upload pipeline of gemini-cli-deep-research: FileUploader           *)
(* (uploadFile / uploadDirectory with smart sync and bounded batches),     *)
(* UploadOperationManager over WorkspaceConfigManager (the persisted job   *)
(* records), and the file_search_upload tool handler that runs an upload   *)
(* as a background job.                                                    *)
(*                                                                         *)
(* JavaScript is single-threaded: every action below is one run-to-        *)
(* completion turn of the event loop (from a resumption up to the next     *)
(* await that really suspends).                                            *)
(***************************************************************************)
EXTENDS Integers, Sequences, FiniteSets, TLC

VARIABLES
    configFile,   \* .gemini-research.json: [exists, config]
    clock,        \* the wall clock read by new Date()
    tasks,        \* the asynchronous upload invocations of this process
    call          \* the call of a library function under examination

vars == <<configFile, clock, tasks, call>>

(***************************************************************************)
(* Bounds of the model.                                                    *)
(***************************************************************************)
\* files in the directory of a tool-handler job (specification Spec)
MaxFiles == 3
\* files in the directory of a direct uploadDirectory call (SpecBatch)
MaxBatchFiles == 3
\* largest parallel.maxConcurrent passed to a direct uploadDirectory call
MaxConc == 2
\* files in the directory of each of two concurrent jobs (SpecJobs)
MaxJobFiles == 1
\* files in the directory of the job of the fair specification (SpecLive)
MaxLiveFiles == 2
\* files in the directory tree of a direct uploadDirectory call (SpecScan)
MaxScanFiles == 2
\* calls of UploadOperationManager methods in one behaviour (SpecStore)
MaxCalls == 4

\* how far below 0 the loop index of uploadDirectory is followed; it stands
\* for the least integer a number counts down to in steps of maxConcurrent
MaxIndexDepth == 3

(***************************************************************************)
(* JavaScript values.                                                      *)
(***************************************************************************)
undefined == "undefined"
null == "null"

\* Math.round(num / den * 100) for num >= 0, den > 0 (round half up)
Percentage(num, den) == (200 * num + den) \div (2 * den)

(***************************************************************************)
(* mimeTypes.ts                                                            *)
(***************************************************************************)
EXTENSION_TO_MIME ==
    (".pdf" :> "application/pdf") @@ (".xml" :> "application/xml") @@
    (".txt" :> "text/plain") @@ (".text" :> "text/plain") @@
    (".log" :> "text/plain") @@ (".out" :> "text/plain") @@
    (".env" :> "text/plain") @@ (".gitignore" :> "text/plain") @@
    (".gitattributes" :> "text/plain") @@ (".dockerignore" :> "text/plain") @@
    (".html" :> "text/html") @@ (".htm" :> "text/html") @@
    (".md" :> "text/markdown") @@ (".markdown" :> "text/markdown") @@
    (".mdown" :> "text/markdown") @@ (".mkd" :> "text/markdown") @@
    (".c" :> "text/x-c") @@ (".h" :> "text/x-c") @@
    (".java" :> "text/x-java") @@
    (".kt" :> "text/x-kotlin") @@ (".kts" :> "text/x-kotlin") @@
    (".go" :> "text/x-go") @@
    (".py" :> "text/x-python") @@ (".pyw" :> "text/x-python") @@
    (".pyx" :> "text/x-python") @@ (".pyi" :> "text/x-python") @@
    (".pl" :> "text/x-perl") @@ (".pm" :> "text/x-perl") @@
    (".t" :> "text/x-perl") @@ (".pod" :> "text/x-perl") @@
    (".lua" :> "text/x-lua") @@
    (".erl" :> "text/x-erlang") @@ (".hrl" :> "text/x-erlang") @@
    (".tcl" :> "text/x-tcl") @@
    (".bib" :> "text/x-bibtex") @@
    (".diff" :> "text/x-diff")

TEXT_FALLBACK_EXTENSIONS ==
    { ".js", ".mjs", ".cjs", ".jsx",
      ".ts", ".mts", ".cts", ".tsx", ".d.ts",
      ".json", ".jsonc", ".json5",
      ".css", ".scss", ".sass", ".less", ".styl",
      ".vue", ".svelte", ".astro",
      ".sh", ".bash", ".zsh", ".fish", ".ksh", ".csh", ".tcsh",
      ".bat", ".cmd", ".ps1", ".psm1",
      ".yaml", ".yml", ".toml", ".ini", ".cfg", ".conf",
      ".properties", ".editorconfig", ".prettierrc", ".eslintrc",
      ".babelrc", ".npmrc", ".nvmrc", ".browserslistrc",
      ".makefile", ".cmake", ".gradle", ".sbt",
      ".gemfile", ".podfile", ".cartfile",
      ".rb", ".rake", ".gemspec",
      ".php", ".phtml",
      ".rs", ".rlib",
      ".swift",
      ".scala",
      ".clj", ".cljs", ".cljc", ".edn",
      ".ex", ".exs",
      ".hs", ".lhs",
      ".ml", ".mli",
      ".fs", ".fsx", ".fsi",
      ".r", ".rmd",
      ".jl",
      ".nim", ".nimble",
      ".zig",
      ".v", ".sv", ".svh",
      ".vhd", ".vhdl",
      ".asm", ".s",
      ".f", ".f90", ".f95", ".for",
      ".pas", ".pp",
      ".d",
      ".ada", ".adb", ".ads",
      ".cob", ".cbl",
      ".pro", ".P",
      ".lisp", ".lsp", ".cl",
      ".scm", ".ss", ".rkt",
      ".groovy", ".gvy",
      ".dart",
      ".cr",
      ".coffee",
      ".elm",
      ".purs",
      ".hx",
      ".sol",
      ".rst", ".asciidoc", ".adoc", ".asc",
      ".tex", ".latex", ".sty", ".cls",
      ".csv", ".tsv",
      ".sql",
      ".graphql", ".gql",
      ".lock", ".sum",
      ".dockerfile",
      ".patch",
      ".awk",
      ".sed",
      ".vim", ".vimrc",
      ".tmux.conf",
      ".htaccess", ".htpasswd",
      ".nix" }

MAX_FILE_SIZE_BYTES == 100 * 1024 * 1024

\* String.prototype.toLowerCase on the extensions the model's files carry:
\* the strings with a capital letter are listed (every entry of the two
\* tables in capitals, among others), an all-lower-case string is its own
\* image.
LowerCaseOf ==
    (".ADA" :> ".ada") @@ (".ADB" :> ".adb") @@ (".ADOC" :> ".adoc") @@
    (".ADS" :> ".ads") @@ (".ASC" :> ".asc") @@
    (".ASCIIDOC" :> ".asciidoc") @@ (".ASM" :> ".asm") @@
    (".ASTRO" :> ".astro") @@ (".AWK" :> ".awk") @@
    (".BABELRC" :> ".babelrc") @@ (".BASH" :> ".bash") @@
    (".BAT" :> ".bat") @@ (".BIB" :> ".bib") @@
    (".BROWSERSLISTRC" :> ".browserslistrc") @@ (".C" :> ".c") @@
    (".CARTFILE" :> ".cartfile") @@ (".CBL" :> ".cbl") @@
    (".CFG" :> ".cfg") @@ (".CJS" :> ".cjs") @@ (".CL" :> ".cl") @@
    (".CLJ" :> ".clj") @@ (".CLJC" :> ".cljc") @@ (".CLJS" :> ".cljs") @@
    (".CLS" :> ".cls") @@ (".CMAKE" :> ".cmake") @@ (".CMD" :> ".cmd") @@
    (".COB" :> ".cob") @@ (".COFFEE" :> ".coffee") @@ (".CONF" :> ".conf") @@
    (".CR" :> ".cr") @@ (".CSH" :> ".csh") @@ (".CSS" :> ".css") @@
    (".CSV" :> ".csv") @@ (".CTS" :> ".cts") @@ (".D" :> ".d") @@
    (".D.TS" :> ".d.ts") @@ (".DART" :> ".dart") @@ (".DIFF" :> ".diff") @@
    (".DOCKERFILE" :> ".dockerfile") @@
    (".DOCKERIGNORE" :> ".dockerignore") @@
    (".EDITORCONFIG" :> ".editorconfig") @@ (".EDN" :> ".edn") @@
    (".ELM" :> ".elm") @@ (".ENV" :> ".env") @@ (".ERL" :> ".erl") @@
    (".ESLINTRC" :> ".eslintrc") @@ (".EX" :> ".ex") @@ (".EXE" :> ".exe") @@
    (".EXS" :> ".exs") @@ (".F" :> ".f") @@ (".F90" :> ".f90") @@
    (".F95" :> ".f95") @@ (".FISH" :> ".fish") @@ (".FOR" :> ".for") @@
    (".FS" :> ".fs") @@ (".FSI" :> ".fsi") @@ (".FSX" :> ".fsx") @@
    (".GEMFILE" :> ".gemfile") @@ (".GEMSPEC" :> ".gemspec") @@
    (".GITATTRIBUTES" :> ".gitattributes") @@
    (".GITIGNORE" :> ".gitignore") @@ (".GO" :> ".go") @@
    (".GQL" :> ".gql") @@ (".GRADLE" :> ".gradle") @@
    (".GRAPHQL" :> ".graphql") @@ (".GROOVY" :> ".groovy") @@
    (".GVY" :> ".gvy") @@ (".H" :> ".h") @@ (".HRL" :> ".hrl") @@
    (".HS" :> ".hs") @@ (".HTACCESS" :> ".htaccess") @@ (".HTM" :> ".htm") @@
    (".HTML" :> ".html") @@ (".HTPASSWD" :> ".htpasswd") @@
    (".HX" :> ".hx") @@ (".INI" :> ".ini") @@ (".JAVA" :> ".java") @@
    (".JL" :> ".jl") @@ (".JS" :> ".js") @@ (".JSON" :> ".json") @@
    (".JSON5" :> ".json5") @@ (".JSONC" :> ".jsonc") @@ (".JSX" :> ".jsx") @@
    (".KSH" :> ".ksh") @@ (".KT" :> ".kt") @@ (".KTS" :> ".kts") @@
    (".LATEX" :> ".latex") @@ (".LESS" :> ".less") @@ (".LHS" :> ".lhs") @@
    (".LISP" :> ".lisp") @@ (".LOCK" :> ".lock") @@ (".LOG" :> ".log") @@
    (".LSP" :> ".lsp") @@ (".LUA" :> ".lua") @@
    (".MAKEFILE" :> ".makefile") @@ (".MARKDOWN" :> ".markdown") @@
    (".MD" :> ".md") @@ (".MDOWN" :> ".mdown") @@ (".MJS" :> ".mjs") @@
    (".MKD" :> ".mkd") @@ (".ML" :> ".ml") @@ (".MLI" :> ".mli") @@
    (".MTS" :> ".mts") @@ (".Md" :> ".md") @@ (".NIM" :> ".nim") @@
    (".NIMBLE" :> ".nimble") @@ (".NIX" :> ".nix") @@
    (".NPMRC" :> ".npmrc") @@ (".NVMRC" :> ".nvmrc") @@ (".OUT" :> ".out") @@
    (".P" :> ".p") @@ (".PAS" :> ".pas") @@ (".PATCH" :> ".patch") @@
    (".PDF" :> ".pdf") @@ (".PHP" :> ".php") @@ (".PHTML" :> ".phtml") @@
    (".PL" :> ".pl") @@ (".PM" :> ".pm") @@ (".POD" :> ".pod") @@
    (".PODFILE" :> ".podfile") @@ (".PP" :> ".pp") @@
    (".PRETTIERRC" :> ".prettierrc") @@ (".PRO" :> ".pro") @@
    (".PROPERTIES" :> ".properties") @@ (".PS1" :> ".ps1") @@
    (".PSM1" :> ".psm1") @@ (".PURS" :> ".purs") @@ (".PY" :> ".py") @@
    (".PYI" :> ".pyi") @@ (".PYW" :> ".pyw") @@ (".PYX" :> ".pyx") @@
    (".R" :> ".r") @@ (".RAKE" :> ".rake") @@ (".RB" :> ".rb") @@
    (".RKT" :> ".rkt") @@ (".RLIB" :> ".rlib") @@ (".RMD" :> ".rmd") @@
    (".RS" :> ".rs") @@ (".RST" :> ".rst") @@ (".S" :> ".s") @@
    (".SASS" :> ".sass") @@ (".SBT" :> ".sbt") @@ (".SCALA" :> ".scala") @@
    (".SCM" :> ".scm") @@ (".SCSS" :> ".scss") @@ (".SED" :> ".sed") @@
    (".SH" :> ".sh") @@ (".SOL" :> ".sol") @@ (".SQL" :> ".sql") @@
    (".SS" :> ".ss") @@ (".STY" :> ".sty") @@ (".STYL" :> ".styl") @@
    (".SUM" :> ".sum") @@ (".SV" :> ".sv") @@ (".SVELTE" :> ".svelte") @@
    (".SVH" :> ".svh") @@ (".SWIFT" :> ".swift") @@ (".T" :> ".t") @@
    (".TCL" :> ".tcl") @@ (".TCSH" :> ".tcsh") @@ (".TEX" :> ".tex") @@
    (".TEXT" :> ".text") @@ (".TMUX.CONF" :> ".tmux.conf") @@
    (".TOML" :> ".toml") @@ (".TS" :> ".ts") @@ (".TSV" :> ".tsv") @@
    (".TSX" :> ".tsx") @@ (".TXT" :> ".txt") @@ (".V" :> ".v") @@
    (".VHD" :> ".vhd") @@ (".VHDL" :> ".vhdl") @@ (".VIM" :> ".vim") @@
    (".VIMRC" :> ".vimrc") @@ (".VUE" :> ".vue") @@ (".XML" :> ".xml") @@
    (".YAML" :> ".yaml") @@ (".YML" :> ".yml") @@ (".ZIG" :> ".zig") @@
    (".ZSH" :> ".zsh")

toLowerCase(s) == IF s \in DOMAIN LowerCaseOf THEN LowerCaseOf[s] ELSE s

\* the suffixes with two dots the model's files carry, and what follows
\* their last "."
LastExtensionOf ==
    (".d.ts" :> ".ts") @@ (".D.TS" :> ".TS") @@
    (".tmux.conf" :> ".conf") @@ (".TMUX.CONF" :> ".CONF")

\* path.extname(filePath): the base name from its last "." on.  A file of the
\* model carries as ext the part of its base name from the first "." that is
\* not the first character ("" if there is none).
extname(f) == IF f.ext \in DOMAIN LastExtensionOf THEN LastExtensionOf[f.ext] ELSE f.ext

\* the result null is the record whose mimeType is null
getMimeTypeWithFallback(f) ==
    LET ext == toLowerCase(extname(f))
    IN  IF ext \in DOMAIN EXTENSION_TO_MIME
        THEN [mimeType |-> EXTENSION_TO_MIME[ext], isFallback |-> FALSE]
        ELSE IF ext \in TEXT_FALLBACK_EXTENSIONS
             THEN [mimeType |-> "text/plain", isFallback |-> TRUE]
             ELSE [mimeType |-> null, isFallback |-> FALSE]

(***************************************************************************)
(* The extension argument of isExtensionSupported and of                   *)
(* isExtensionSupportedWithFallback is the string [startsWithDot, dotted]: *)
(* dotted is the string itself if it starts with ".", and the string with  *)
(* "." put before it otherwise.                                            *)
(***************************************************************************)
\* extension.toLowerCase()
lowerCased(extension) == [extension EXCEPT !.dotted = toLowerCase(@)]

\* normalizedExt.startsWith('.') ? normalizedExt : `.${normalizedExt}`
withDotOf(normalizedExt) ==
    IF normalizedExt.startsWithDot THEN normalizedExt.dotted
    ELSE [normalizedExt EXCEPT !.startsWithDot = TRUE].dotted

\* the letter case of the argument is kept
isExtensionSupported_caseKept(extension) ==
    withDotOf(extension) \in DOMAIN EXTENSION_TO_MIME

isExtensionSupported(extension) ==
    LET normalizedExt == lowerCased(extension)
        withDot == withDotOf(normalizedExt)
    IN  withDot \in DOMAIN EXTENSION_TO_MIME

isExtensionSupportedWithFallback(extension) ==
    LET normalizedExt == lowerCased(extension)
        withDot == withDotOf(normalizedExt)
    IN  withDot \in DOMAIN EXTENSION_TO_MIME \/ withDot \in TEXT_FALLBACK_EXTENSIONS

(***************************************************************************)
(* FileUploader.ts: the private helpers.  A helper that throws returns the *)
(* name of the error it throws.                                            *)
(***************************************************************************)
determineMimeType(f) ==
    LET result == getMimeTypeWithFallback(f)
    IN  IF result.mimeType = null THEN "UnsupportedFileTypeError" ELSE result.mimeType

\* a file of exactly the limit is refused
validateFileSize_atLimit(f) ==
    IF f.size >= MAX_FILE_SIZE_BYTES THEN "FileSizeExceededError" ELSE "ok"

validateFileSize(f) ==
    IF f.size > MAX_FILE_SIZE_BYTES THEN "FileSizeExceededError" ELSE "ok"

\* SHA-256 (hex, shortened here) of the contents the model's files have
SHA256 == ("a" :> "ca978112ca1bbdca") @@ ("b" :> "3e23e8160039594a")

getFileHash(f) == SHA256[f.content]

(***************************************************************************)
(* WorkspaceConfig.ts: the persisted workspace file.  configFile is        *)
(* [exists, config]: whether .gemini-research.json exists and what it      *)
(* parses to.                                                              *)
(***************************************************************************)
defaultConfig ==
    [researchIds |-> <<>>, fileSearchStores |-> <<>>, uploadOperations |-> <<>>]

\* WorkspaceConfigManager.save: the file after writing config
save(config) == [exists |-> TRUE, config |-> config]

\* WorkspaceConfigManager.load: what load() returns
load(file) == IF file.exists THEN file.config ELSE defaultConfig

\* the file after a load(): a missing file is created with the default content
loaded(file) == IF file.exists THEN file ELSE save(defaultConfig)

\* WorkspaceConfigManager.getUploadOperation returns a record (not undefined)
hasUploadOperation(file, id) == id \in DOMAIN load(file).uploadOperations

\* WorkspaceConfigManager.getUploadOperation, where it returns a record
getUploadOperation(file, id) == load(file).uploadOperations[id]

\* the record is written into a fresh configuration instead of the loaded one
setUploadOperation_fresh(file, id, operation) ==
    save([defaultConfig EXCEPT !.uploadOperations = (id :> operation) @@ @])

\* WorkspaceConfigManager.setUploadOperation: load, set the key, save
setUploadOperation(file, id, operation) ==
    LET config == load(file)
    IN  save([config EXCEPT !.uploadOperations = (id :> operation) @@ @])

\* WorkspaceConfigManager.addResearchId: push and save unless already listed
addResearchId(file, id) ==
    LET config == load(file)
    IN  IF \E j \in 1..Len(config.researchIds) : config.researchIds[j] = id
        THEN loaded(file)
        ELSE save([config EXCEPT !.researchIds = Append(@, id)])

\* WorkspaceConfigManager.addFileSearchStore: load, set the name, save
addFileSearchStore(file, name, resourceName) ==
    LET config == load(file)
    IN  save([config EXCEPT !.fileSearchStores = (name :> resourceName) @@ @])

(***************************************************************************)
(* UploadOperationManager.ts.  Each operation yields the file it leaves.   *)
(***************************************************************************)
\* the new record starts as in_progress
createOperation_inProgress(file, id, path, storeName, smartSync, now) ==
    setUploadOperation(file, id,
        [id |-> id, status |-> "in_progress", path |-> path, storeName |-> storeName,
         smartSync |-> smartSync, totalFiles |-> 0, completedFiles |-> 0,
         skippedFiles |-> 0, failedFiles |-> 0, failedFilesList |-> <<>>,
         startedAt |-> now])

\* the new record is not persisted
createOperation_unsaved(file, id, path, storeName, smartSync, now) == loaded(file)

createOperation(file, id, path, storeName, smartSync, now) ==
    setUploadOperation(file, id,
        [id |-> id, status |-> "pending", path |-> path, storeName |-> storeName,
         smartSync |-> smartSync, totalFiles |-> 0, completedFiles |-> 0,
         skippedFiles |-> 0, failedFiles |-> 0, failedFilesList |-> <<>>,
         startedAt |-> now])

getOperation(file, id) == getUploadOperation(file, id)

\* a record holding just the updates is stored when the id has no record
updateOperation_upsert(file, id, updates) ==
    IF ~hasUploadOperation(file, id)
    THEN setUploadOperation(file, id, updates)
    ELSE setUploadOperation(file, id, updates @@ getOperation(file, id))

\* the record written holds the id and the updates only
updateOperation_replace(file, id, updates) ==
    IF ~hasUploadOperation(file, id)
    THEN loaded(file)
    ELSE setUploadOperation(file, id, updates @@ [id |-> id])

\* {...existing, ...updates}; nothing is written when the id has no record
updateOperation(file, id, updates) ==
    IF ~hasUploadOperation(file, id)
    THEN loaded(file)
    ELSE setUploadOperation(file, id, updates @@ getOperation(file, id))

\* the total is not written
markInProgress_noTotal(file, id, totalFiles) ==
    updateOperation(file, id, [status |-> "in_progress"])

markInProgress(file, id, totalFiles) ==
    updateOperation(file, id, [status |-> "in_progress", totalFiles |-> totalFiles])

markCompleted(file, id, now) ==
    updateOperation(file, id, [status |-> "completed", completedAt |-> now])

\* the failure is not written
markFailed_lost(file, id, error, now) == loaded(file)

markFailed(file, id, error, now) ==
    updateOperation(file, id, [status |-> "failed", error |-> error, completedAt |-> now])

updateProgress(file, id, completedFiles, skippedFiles, failedFiles) ==
    updateOperation(file, id,
        [completedFiles |-> completedFiles, skippedFiles |-> skippedFiles,
         failedFiles |-> failedFiles])

\* the new entry is put first
addFailedFile_prepend(file, id, f, error) ==
    IF ~hasUploadOperation(file, id)
    THEN loaded(file)
    ELSE LET failedFilesList ==
                 <<[file |-> f, error |-> error]>>
                     \o getOperation(file, id).failedFilesList
         IN  updateOperation(file, id,
                 [failedFiles |-> Len(failedFilesList),
                  failedFilesList |-> failedFilesList])

\* what updateOperation, and each method that returns its result, returns
\* when it leaves `file`: the record it has stored as <<record>>, or
\* undefined as <<>> when the id had no record
stored(file, id) ==
    IF hasUploadOperation(file, id) THEN <<getOperation(file, id)>> ELSE <<>>

addFailedFile(file, id, f, error) ==
    IF ~hasUploadOperation(file, id)
    THEN loaded(file)
    ELSE LET failedFilesList ==
                 Append(getOperation(file, id).failedFilesList,
                        [file |-> f, error |-> error])
         IN  updateOperation(file, id,
                 [failedFiles |-> Len(failedFilesList),
                  failedFilesList |-> failedFilesList])

(***************************************************************************)
(* The local files and the remote store the model draws its inputs from.   *)
(* A file is [name, ext, size, content, hidden]: name is its path relative *)
(* to the uploaded directory (also its base name), hidden says that the    *)
(* base name starts with ".".                                              *)
(***************************************************************************)
FileKinds ==
    { [ext |-> ".txt", size |-> MAX_FILE_SIZE_BYTES,     content |-> "a", hidden |-> FALSE],
      [ext |-> ".ts",  size |-> 1,                       content |-> "b", hidden |-> FALSE],
      [ext |-> ".pdf", size |-> MAX_FILE_SIZE_BYTES + 1, content |-> "a", hidden |-> FALSE],
      [ext |-> ".exe", size |-> 1,                       content |-> "b", hidden |-> FALSE],
      [ext |-> "",     size |-> 1,                       content |-> "a", hidden |-> TRUE] }

\* a smaller choice of files: one accepted, one over the size limit
FewKinds == { k \in FileKinds : k.ext \in {".txt", ".pdf"} }

\* what the store may record for a local file: nothing, or a document whose
\* hash metadata is the digest of that content
RemoteContents == {"none", "a", "b"}

\* the names of the entries of a directory, in readdir order
FileNames == <<"file1", "file2", "file3", "file4", "file5", "file6">>

\* the resource names of the documents of the store
DocumentNames == <<"documents/1", "documents/2", "documents/3",
                   "documents/4", "documents/5", "documents/6">>

\* the store every upload of the model goes to
StoreName == "fileSearchStores/s"

\* the asynchronous invocations the model follows
TaskIds == {"t1", "t2"}

\* the message of the error a transfer call rejects with
TransferError == "upload rejected"

\* the IDs crypto.randomUUID() may return
OpIds == {"op1", "op2"}

DefaultMaxConcurrent == 5

(***************************************************************************)
(* FileUploader.getExistingFileHashes.  A document is [name,               *)
(* customMetadata], a metadata item [key, stringValue]; a field a          *)
(* document or an item lacks is absent from the record.                    *)
(***************************************************************************)
\* meta.stringValue as <<value>>, or <<>> when it is undefined
stringValue(meta) == IF "stringValue" \in DOMAIN meta THEN <<meta.stringValue>> ELSE <<>>

\* a string (given as <<value>> or <<>>) is truthy: defined and not empty
truthy(v) == v # <<>> /\ v[1] # ""

\* the inner loop over doc.customMetadata: the last "path" and "hash" values
RECURSIVE scanMetadata(_, _, _)
scanMetadata(metadata, j, acc) ==
    IF j > Len(metadata) THEN acc
    ELSE LET meta == metadata[j]
         IN  IF "key" \notin DOMAIN meta THEN scanMetadata(metadata, j + 1, acc)
             ELSE IF meta.key = "path"
                  THEN scanMetadata(metadata, j + 1, [acc EXCEPT !.filePath = stringValue(meta)])
                  ELSE IF meta.key = "hash"
                       THEN scanMetadata(metadata, j + 1, [acc EXCEPT !.hash = stringValue(meta)])
                       ELSE scanMetadata(metadata, j + 1, acc)

\* the loop ends at the first document that gives no entry
RECURSIVE collectHashes_abort(_, _, _)
collectHashes_abort(documents, d, hashMap) ==
    IF d > Len(documents) THEN hashMap
    ELSE LET doc == documents[d]
             metadata == IF "customMetadata" \in DOMAIN doc THEN doc.customMetadata ELSE <<>>
             found == scanMetadata(metadata, 1, [filePath |-> <<>>, hash |-> <<>>])
         IN  IF truthy(found.filePath) /\ truthy(found.hash) /\ "name" \in DOMAIN doc
             THEN collectHashes_abort(documents, d + 1,
                      (found.filePath[1] :> [hash |-> found.hash[1], documentName |-> doc.name])
                          @@ hashMap)
             ELSE hashMap

\* the loop over the listed documents: hashMap.set(filePath, {hash, documentName})
RECURSIVE collectHashes(_, _, _)
collectHashes(documents, d, hashMap) ==
    IF d > Len(documents) THEN hashMap
    ELSE LET doc == documents[d]
             metadata == IF "customMetadata" \in DOMAIN doc THEN doc.customMetadata ELSE <<>>
             found == scanMetadata(metadata, 1, [filePath |-> <<>>, hash |-> <<>>])
         IN  IF truthy(found.filePath) /\ truthy(found.hash) /\ "name" \in DOMAIN doc
             THEN collectHashes(documents, d + 1,
                      (found.filePath[1] :> [hash |-> found.hash[1], documentName |-> doc.name])
                          @@ hashMap)
             ELSE collectHashes(documents, d + 1, hashMap)

\* the documents listed before the failure are used
getExistingFileHashes_partial(listing) == collectHashes(listing.documents, 1, <<>>)

\* listing is [ok, documents]: listDocuments resolved with documents (all of
\* them), or rejected after it had fetched documents
getExistingFileHashes(listing) ==
    IF listing.ok THEN collectHashes(listing.documents, 1, <<>>) ELSE <<>>

(***************************************************************************)
(* One asynchronous upload invocation.  The synchronous code works on a    *)
(* world w = [t, file, clk]: the invocation's own state, the workspace     *)
(* file and the clock.  The field `store` holds the documents the store    *)
(* has for the files of an invocation that never lists it (a single-file   *)
(* job, a directory upload without smart sync); an invocation that lists   *)
(* the store gets its documents when the listing settles.                  *)
(***************************************************************************)
IdleTask ==
    [pc |-> "idle", caller |-> "none", opId |-> "none", isDir |-> FALSE,
     smartSync |-> FALSE, maxConcurrent |-> DefaultMaxConcurrent,
     allFiles |-> <<>>, existingHashes |-> <<>>, listing |-> "none",
     i |-> 0, completedFiles |-> 0, skippedFiles |-> 0, failedFiles |-> 0,
     results |-> <<>>, promise |-> <<>>, error |-> "none",
     job |-> [completedFiles |-> 0, skippedFiles |-> 0, failedFiles |-> 0],
     events |-> <<>>, hashCalls |-> <<>>, transferCalls |-> <<>>,
     transferAt |-> <<>>, store |-> <<>>]

\* the job is marked completed at its first file_complete event
Reducer_eager(w, event) ==
    LET id == w.t.opId
    IN  CASE event.type = "start" ->
               [w EXCEPT !.file = markInProgress(w.file, id, event.totalFiles)]
          [] event.type = "file_complete" ->
               [w EXCEPT !.t.job.completedFiles = event.completedFiles,
                         !.file = markCompleted(
                                      updateProgress(w.file, id, event.completedFiles,
                                          w.t.job.skippedFiles, w.t.job.failedFiles),
                                      id, w.clk)]
          [] event.type = "file_skipped" ->
               [w EXCEPT !.t.job.skippedFiles = event.skippedFiles,
                         !.file = updateProgress(w.file, id,
                                      w.t.job.completedFiles, event.skippedFiles,
                                      w.t.job.failedFiles)]
          [] event.type = "file_error" ->
               [w EXCEPT !.t.job.failedFiles = @ + 1,
                         !.file = addFailedFile(w.file, id, event.currentFile, event.error)]
          [] OTHER -> w

\* file_complete and file_skipped write failedFiles as 0
Reducer_resetFailed(w, event) ==
    LET id == w.t.opId
    IN  CASE event.type = "start" ->
               [w EXCEPT !.file = markInProgress(w.file, id, event.totalFiles)]
          [] event.type = "file_complete" ->
               [w EXCEPT !.t.job.completedFiles = event.completedFiles,
                         !.file = updateProgress(w.file, id, event.completedFiles,
                                      w.t.job.skippedFiles, 0)]
          [] event.type = "file_skipped" ->
               [w EXCEPT !.t.job.skippedFiles = event.skippedFiles,
                         !.file = updateProgress(w.file, id,
                                      w.t.job.completedFiles, event.skippedFiles, 0)]
          [] event.type = "file_error" ->
               [w EXCEPT !.t.job.failedFiles = @ + 1,
                         !.file = addFailedFile(w.file, id, event.currentFile, event.error)]
          [] OTHER -> w

\* the onProgress callback file_search_upload passes to uploadDirectory
Reducer(w, event) ==
    LET id == w.t.opId
    IN  CASE event.type = "start" ->
               [w EXCEPT !.file = markInProgress(w.file, id, event.totalFiles)]
          [] event.type = "file_complete" ->
               LET c == IF "completedFiles" \in DOMAIN event
                        THEN event.completedFiles ELSE w.t.job.completedFiles
               IN  [w EXCEPT !.t.job.completedFiles = c,
                             !.file = updateProgress(w.file, id, c,
                                          w.t.job.skippedFiles, w.t.job.failedFiles)]
          [] event.type = "file_skipped" ->
               LET k == IF "skippedFiles" \in DOMAIN event
                        THEN event.skippedFiles ELSE w.t.job.skippedFiles
               IN  [w EXCEPT !.t.job.skippedFiles = k,
                             !.file = updateProgress(w.file, id,
                                          w.t.job.completedFiles, k, w.t.job.failedFiles)]
          [] event.type = "file_error" ->
               [w EXCEPT !.t.job.failedFiles = @ + 1,
                         !.file = addFailedFile(w.file, id, event.currentFile, event.error)]
          [] OTHER -> w

\* config.onProgress as the caller passed it: the tool handler's reducer, or
\* a callback that only records the event (a direct caller)
onProgress(w, event) ==
    LET w1 == [w EXCEPT !.t.events = Append(@, event)]
    IN  IF w.t.caller = "job" THEN Reducer(w1, event) ELSE w1

\* what a callback that fails throws
CallbackError == "callback failed"

\* config.onProgress throws after it has taken the event: the caller
\* "thrower" passes a callback that fails on file_complete and file_skipped
onProgressThrows(w, event) ==
    w.t.caller = "thrower" /\ event.type \in {"file_complete", "file_skipped"}

\* the onProgress wrapper uploadDirectory passes to uploadFile
augmented(w, k, event) ==
    onProgress(w,
        [currentFileIndex |-> k,
         totalFiles |-> Len(w.t.allFiles),
         completedFiles |-> w.t.completedFiles,
         skippedFiles |-> w.t.skippedFiles,
         percentage |-> Percentage(w.t.completedFiles + w.t.skippedFiles,
                                   Len(w.t.allFiles))] @@ event)

\* the transfer call is made before file_start is emitted
uploadFileBegin_transferFirst(w, k) ==
    LET f == w.t.allFiles[k]
    IN  IF validateFileSize(f) # "ok"
        THEN [w EXCEPT !.t.promise[k] = "FileSizeExceededError"]
        ELSE IF determineMimeType(f) = "UnsupportedFileTypeError"
        THEN [w EXCEPT !.t.promise[k] = "UnsupportedFileTypeError"]
        ELSE LET w1 == [w EXCEPT !.t.hashCalls[k] = @ + 1,
                                 !.t.transferCalls[k] = @ + 1,
                                 !.t.transferAt[k] = Len(w.t.events),
                                 !.t.promise[k] = "pending"]
             IN  IF w.t.isDir
                 THEN augmented(w1, k, [type |-> "file_start", currentFile |-> f.name])
                 ELSE w1

\* uploadFile up to its await of the transfer call; file k of allFiles.
\* transferAt[k] is the number of events emitted before the transfer call.
uploadFileBegin(w, k) ==
    LET f == w.t.allFiles[k]
    IN  IF validateFileSize(f) # "ok"
        THEN [w EXCEPT !.t.promise[k] = "FileSizeExceededError"]
        ELSE IF determineMimeType(f) = "UnsupportedFileTypeError"
        THEN [w EXCEPT !.t.promise[k] = "UnsupportedFileTypeError"]
        ELSE LET w1 == [w EXCEPT !.t.hashCalls[k] = @ + 1]
                 w2 == IF w.t.isDir
                       THEN augmented(w1, k, [type |-> "file_start", currentFile |-> f.name])
                       ELSE w1
             IN  [w2 EXCEPT !.t.transferCalls[k] = @ + 1,
                            !.t.transferAt[k] = Len(w2.t.events),
                            !.t.promise[k] = "pending"]

\* file_complete is emitted before onFileComplete has counted the file
uploadFileResolved_eventFirst(w, k) ==
    LET f == w.t.allFiles[k]
        w1 == IF w.t.isDir
              THEN augmented(w, k, [type |-> "file_complete", currentFile |-> f.name])
              ELSE w
        w2 == IF w.t.isDir THEN [w1 EXCEPT !.t.completedFiles = @ + 1] ELSE w1
    IN  [w2 EXCEPT !.t.promise[k] = "fulfilled"]

\* uploadFile resumed by the transfer call resolving
uploadFileResolved(w, k) ==
    LET f == w.t.allFiles[k]
        w1 == IF w.t.isDir THEN [w EXCEPT !.t.completedFiles = @ + 1] ELSE w
        event == [type |-> "file_complete", currentFile |-> f.name]
        w2 == IF w.t.isDir THEN augmented(w1, k, event) ELSE w1
    IN  IF w.t.isDir /\ onProgressThrows(w1, event)
        THEN \* the throw is inside the try: the catch block emits file_error
             \* and throws FileUploadError
             [augmented(w2, k, [type |-> "file_error", currentFile |-> f.name,
                                error |-> CallbackError])
                  EXCEPT !.t.promise[k] = "FileUploadError"]
        ELSE [w2 EXCEPT !.t.promise[k] = "fulfilled"]

\* uploadFile resumed by the transfer call rejecting: the catch block
uploadFileRejected(w, k) ==
    LET f == w.t.allFiles[k]
        w1 == IF w.t.isDir
              THEN augmented(w, k, [type |-> "file_error", currentFile |-> f.name,
                                    error |-> TransferError])
              ELSE w
    IN  [w1 EXCEPT !.t.promise[k] = "FileUploadError"]

\* a file is skipped as soon as the store knows its path, whatever its hash
mapFile_anyEntry(w, k) ==
    LET f == w.t.allFiles[k]
    IN  IF w.t.smartSync /\ f.name \in DOMAIN w.t.existingHashes
        THEN LET w2 == [w EXCEPT !.t.hashCalls[k] = @ + 1,
                                 !.t.skippedFiles = @ + 1,
                                 !.t.promise[k] = "skipped"]
             IN  onProgress(w2,
                     [type |-> "file_skipped", currentFile |-> f.name,
                      currentFileIndex |-> k,
                      totalFiles |-> Len(w2.t.allFiles),
                      completedFiles |-> w2.t.completedFiles,
                      skippedFiles |-> w2.t.skippedFiles,
                      percentage |->
                          Percentage(w2.t.completedFiles + w2.t.skippedFiles,
                                     Len(w2.t.allFiles))])
        ELSE uploadFileBegin(w, k)

\* the body of batch.map(async (filePath, idx) => ...) for file k, up to its
\* first await
mapFile(w, k) ==
    LET f == w.t.allFiles[k]
        relativePath == f.name
    IN  IF w.t.smartSync /\ relativePath \in DOMAIN w.t.existingHashes
        THEN LET w1 == [w EXCEPT !.t.hashCalls[k] = @ + 1]
                 localHash == getFileHash(f)
             IN  IF localHash = w.t.existingHashes[relativePath].hash
                 THEN LET w2 == [w1 EXCEPT !.t.skippedFiles = @ + 1,
                                           !.t.promise[k] = "skipped"]
                          event == [type |-> "file_skipped", currentFile |-> f.name,
                                    currentFileIndex |-> k,
                                    totalFiles |-> Len(w2.t.allFiles),
                                    completedFiles |-> w2.t.completedFiles,
                                    skippedFiles |-> w2.t.skippedFiles,
                                    percentage |->
                                        Percentage(w2.t.completedFiles + w2.t.skippedFiles,
                                                   Len(w2.t.allFiles))]
                      IN  IF onProgressThrows(w2, event)
                          THEN \* the throw rejects the promise of the map callback
                               [onProgress(w2, event) EXCEPT
                                    !.t.promise[k] = CallbackError]
                          ELSE onProgress(w2, event)
                 ELSE uploadFileBegin(w1, k)
        ELSE uploadFileBegin(w, k)

\* batch.map over the files k..last, in order: x is the world the callback of
\* file k leaves, the rest of the batch goes on from it
RECURSIVE mapBatch(_, _, _)
mapBatch(w, k, last) ==
    IF k > last THEN w
    ELSE CHOOSE r \in { mapBatch(x, k + 1, last) : x \in {mapFile(w, k)} } : TRUE

Min(a, b) == IF a < b THEN a ELSE b

\* a batch one file too long
batchEnd_wide(t) == Min(t.i + t.maxConcurrent + 1, Len(t.allFiles))

Max(a, b) == IF a > b THEN a ELSE b

\* Array.prototype.slice's reading of an index: a negative index counts from
\* the end, and the result is clamped to 0..len
sliceIndex(n, len) == IF n < 0 THEN Max(len + n, 0) ELSE Min(n, len)

\* allFiles.slice(i, i + maxConcurrent) holds the files batchStart + 1 ..
\* batchEnd (1-based), none if batchEnd <= batchStart
batchStart(t) == sliceIndex(t.i, Len(t.allFiles))

\* the last file (1-based) of the batch that starts at i (0-based)
batchEnd(t) == sliceIndex(t.i + t.maxConcurrent, Len(t.allFiles))

\* i += maxConcurrent on a number: a sum below the least integer the number
\* type counts down to leaves i where it is
nextIndex(t) == Max(t.i + t.maxConcurrent, 0 - MaxIndexDepth)

\* the loop left at the first batch that had a failure
batchLoop_abort(w) ==
    IF w.t.i < Len(w.t.allFiles) /\ w.t.failedFiles = 0
    THEN [mapBatch(w, w.t.i + 1, batchEnd(w.t)) EXCEPT !.t.pc = "batch"]
    ELSE [onProgress(w, [type |-> "complete", totalFiles |-> Len(w.t.allFiles),
                         completedFiles |-> w.t.completedFiles,
                         skippedFiles |-> w.t.skippedFiles,
                         failedFiles |-> w.t.failedFiles,
                         percentage |-> 100])
              EXCEPT !.t.pc = "returned"]

\* the head of the batch loop: dispatch the batch at i, or leave the loop,
\* emit `complete` and return the results
batchLoop(w) ==
    IF w.t.i < Len(w.t.allFiles)
    THEN [mapBatch(w, batchStart(w.t) + 1, batchEnd(w.t)) EXCEPT !.t.pc = "batch"]
    ELSE [onProgress(w, [type |-> "complete", totalFiles |-> Len(w.t.allFiles),
                         completedFiles |-> w.t.completedFiles,
                         skippedFiles |-> w.t.skippedFiles,
                         failedFiles |-> w.t.failedFiles,
                         percentage |-> 100])
              EXCEPT !.t.pc = "returned"]

\* the loop is entered without the `start` event
startUpload_silent(w) == batchLoop(w)

\* uploadDirectory from the `start` event on: x is the world after the event
startUpload(w) ==
    CHOOSE r \in { batchLoop(x) :
                       x \in {onProgress(w, [type |-> "start",
                                             totalFiles |-> Len(w.t.allFiles),
                                             percentage |-> 0])} } : TRUE

\* uploadDirectory from its call to its first await
\* the store is listed whether or not smart sync is enabled
uploadDirectoryBegin_alwaysLists(w) == [w EXCEPT !.t.pc = "listing"]

uploadDirectoryBegin(w) ==
    IF w.t.smartSync THEN [w EXCEPT !.t.pc = "listing"] ELSE startUpload(w)

\* failedFiles counts only the rejections of the transfer call
RECURSIVE trackResults_transferOnly(_, _, _)
trackResults_transferOnly(t, k, last) ==
    IF k > last THEN t
    ELSE trackResults_transferOnly(
             IF t.promise[k] = "fulfilled" THEN [t EXCEPT !.results = Append(@, k)]
             ELSE IF t.promise[k] = "FileUploadError" THEN [t EXCEPT !.failedFiles = @ + 1]
             ELSE t,
             k + 1, last)

\* the value of a skipped file is pushed to results as well
RECURSIVE trackResults_keepsSkipped(_, _, _)
trackResults_keepsSkipped(t, k, last) ==
    IF k > last THEN t
    ELSE trackResults_keepsSkipped(
             IF t.promise[k] \in {"fulfilled", "skipped"}
             THEN [t EXCEPT !.results = Append(@, k)]
             ELSE [t EXCEPT !.failedFiles = @ + 1],
             k + 1, last)

\* "Track results": results and failedFiles after the settled batch k..last
RECURSIVE trackResults(_, _, _)
trackResults(t, k, last) ==
    IF k > last THEN t
    ELSE trackResults(
             IF t.promise[k] = "fulfilled" THEN [t EXCEPT !.results = Append(@, k)]
             ELSE IF t.promise[k] = "skipped" THEN t
             ELSE [t EXCEPT !.failedFiles = @ + 1],
             k + 1, last)

\* entry.isDirectory(): a directory entry is [name, hidden, entries]
isDirectory(entry) == "entries" \in DOMAIN entry

\* getFiles(dir): the files below dir, depth first in readdir order.  dir is
\* the sequence of the directories [name, hidden] from the root down to the
\* one listed; a file found is the entry with its directory attached
\* (path.resolve(dir, entry.name)).
RECURSIVE getFiles(_, _)
getFiles(dir, entries) ==
    IF Len(entries) = 0 THEN <<>>
    ELSE LET entry == Head(entries)
         IN  (IF isDirectory(entry)
              THEN getFiles(Append(dir, [name |-> entry.name, hidden |-> entry.hidden]),
                            entry.entries)
              ELSE << [dir |-> dir] @@ entry >>)
             \o getFiles(dir, Tail(entries))

\* getFiles(absoluteDirPath).filter(f => !path.basename(f).startsWith('.'))
scan(entries) == SelectSeq(getFiles(<<>>, entries), LAMBDA f : ~f.hidden)

\* an invocation over the scanned files
newTask(caller, opId, isDir, smartSync, maxConcurrent, files) ==
    [IdleTask EXCEPT !.caller = caller, !.opId = opId, !.isDir = isDir,
                     !.smartSync = smartSync, !.maxConcurrent = maxConcurrent,
                     !.allFiles = files,
                     !.promise = [k \in 1..Len(files) |-> "none"],
                     !.hashCalls = [k \in 1..Len(files) |-> 0],
                     !.transferCalls = [k \in 1..Len(files) |-> 0],
                     !.transferAt = [k \in 1..Len(files) |-> 0]]

\* the directory whose k-th entry is of kind ks[k]
entriesOf(ks) == [k \in 1..Len(ks) |-> [name |-> FileNames[k]] @@ ks[k]]

\* where an entry of a directory may lie: in the directory itself, in a
\* subdirectory, in a hidden subdirectory, in a directory below a hidden one
Places == {".", "docs", ".cache", ".cache/objects"}

\* the entries the layout lay puts at place, in order
RECURSIVE placed(_, _, _, _)
placed(entries, lay, place, k) ==
    IF k > Len(entries) THEN <<>>
    ELSE (IF lay[k] = place THEN <<entries[k]>> ELSE <<>>)
         \o placed(entries, lay, place, k + 1)

\* the directory [name, hidden, entries], or nothing when it would be empty
directory(name, hidden, entries) ==
    IF Len(entries) = 0 THEN <<>>
    ELSE << [name |-> name, hidden |-> hidden, entries |-> entries] >>

\* the tree readdirSync shows when entry k lies at lay[k]
treeOf(entries, lay) ==
    placed(entries, lay, ".", 1)
    \o directory("docs", FALSE, placed(entries, lay, "docs", 1))
    \o directory(".cache", TRUE,
                 placed(entries, lay, ".cache", 1)
                 \o directory("objects", FALSE,
                              placed(entries, lay, ".cache/objects", 1)))

\* the documents of a store that records content sel[k] ("none": no document)
\* for the k-th file, one well-formed document each
RECURSIVE documentsOf(_, _, _)
documentsOf(files, sel, k) ==
    IF k > Len(files) THEN <<>>
    ELSE (IF sel[k] = "none" THEN <<>>
          ELSE << [name |-> DocumentNames[k],
                   customMetadata |->
                       << [key |-> "path", stringValue |-> files[k].name],
                          [key |-> "hash", stringValue |-> SHA256[sel[k]]] >>] >>)
         \o documentsOf(files, sel, k + 1)

(***************************************************************************)
(* The file_search_upload tool handler (index.ts): the path checks,        *)
(* createOperation, and the background job up to its first await.          *)
(***************************************************************************)
uploadHandler(w, path, smartSync, id, entries) ==
    IF path \in {"missing", "special"}
    THEN [w EXCEPT !.t.pc = "refused"]
    ELSE LET created == [w EXCEPT !.file = createOperation(w.file, id, path, StoreName,
                                                          smartSync, w.clk),
                                  !.clk = @ + 1]
         IN  IF path = "unreadable"
             THEN \* readdirSync throws inside uploadDirectory
                  [created EXCEPT !.t = [newTask("job", id, TRUE, smartSync,
                                                 DefaultMaxConcurrent, <<>>)
                                             EXCEPT !.pc = "rejected", !.error = "EACCES"]]
             ELSE IF path = "dir"
             THEN uploadDirectoryBegin(
                      [created EXCEPT !.t = newTask("job", id, TRUE, smartSync,
                                                    DefaultMaxConcurrent, scan(entries))])
             ELSE \* single file: markInProgress(1), then uploadFile(fsPath, storeName)
                  LET w1 == [created EXCEPT
                                 !.t = newTask("job", id, FALSE, smartSync,
                                               DefaultMaxConcurrent, entries),
                                 !.file = markInProgress(created.file, id, 1)]
                      w2 == uploadFileBegin(w1, 1)
                  IN  IF w2.t.promise[1] = "pending"
                      THEN [w2 EXCEPT !.t.pc = "single"]
                      ELSE [w2 EXCEPT !.t.pc = "rejected", !.t.error = w2.t.promise[1]]

\* the file_search_upload_status tool handler: its answer to a query for
\* operationId when the workspace file is `file`
file_search_upload_status(file, operationId) ==
    IF ~hasUploadOperation(file, operationId)
    THEN [isError |-> TRUE, text |-> "Operation not found"]
    ELSE LET operation == getOperation(file, operationId)
             percentage ==
                 IF operation.totalFiles > 0
                 THEN Percentage(operation.completedFiles + operation.skippedFiles,
                                 operation.totalFiles)
                 ELSE 0
         IN  [isError |-> FALSE,
              operationId |-> operation.id,
              status |-> operation.status,
              path |-> operation.path,
              storeName |-> operation.storeName,
              smartSync |-> operation.smartSync,
              progress |-> [totalFiles |-> operation.totalFiles,
                            completedFiles |-> operation.completedFiles,
                            skippedFiles |-> operation.skippedFiles,
                            failedFiles |-> operation.failedFiles,
                            percentage |-> percentage],
              startedAt |-> operation.startedAt]
             @@ (IF "completedAt" \in DOMAIN operation
                 THEN [completedAt |-> operation.completedAt] ELSE <<>>)
             @@ (IF "error" \in DOMAIN operation
                 THEN [error |-> operation.error] ELSE <<>>)
             @@ (IF Len(operation.failedFilesList) > 0
                 THEN [failedFilesList |-> operation.failedFilesList] ELSE <<>>)

World(t) == [t |-> tasks[t], file |-> configFile, clk |-> clock]

\* the turn of invocation t ends in world w
Commit(t, w) ==
    \E x \in {w} :
        /\ tasks' = [tasks EXCEPT ![t] = x.t]
        /\ configFile' = x.file
        /\ clock' = x.clk
        /\ UNCHANGED call

\* P is the scenario: the inputs the requests of a specification draw from
file_search_upload(t, P) ==
    /\ tasks[t].pc = "idle"
    /\ \E path \in P.paths, smartSync \in P.smart,
          id \in P.ids \ DOMAIN load(configFile).uploadOperations,
          n \in 0..P.maxFiles :
          /\ n = (IF path = "dir" THEN n ELSE IF path = "file" THEN 1 ELSE 0)
          /\ \E ks \in [1..n -> P.kinds],
                \* what the store holds for the file of a single-file request
                sel \in [1..(IF path = "file" THEN 1 ELSE 0) -> P.remote] :
                \E x \in {uploadHandler(World(t), path, smartSync, id, entriesOf(ks))} :
                    Commit(t, [x EXCEPT !.t.store =
                                            IF path = "file"
                                            THEN documentsOf(entriesOf(ks), sel, 1)
                                            ELSE <<>>])

\* a call of FileUploader.uploadDirectory by a caller with its own callback
uploadDirectoryBy(caller, t, P) ==
    /\ tasks[t].pc = "idle"
    /\ \E smartSync \in P.smart, maxConcurrent \in P.conc, n \in 0..P.maxFiles :
          \E ks \in [1..n -> P.kinds], lay \in [1..n -> P.places] :
              \E files \in {scan(treeOf(entriesOf(ks), lay))} :
                  \* what the store holds for the files of a run that does not list it
                  \E sel \in [1..Len(files) -> IF smartSync THEN {"none"} ELSE P.held] :
                      Commit(t, uploadDirectoryBegin(
                                    [World(t) EXCEPT
                                         !.t = [newTask(caller, "none", TRUE, smartSync,
                                                        maxConcurrent, files)
                                                    EXCEPT !.store =
                                                        documentsOf(files, sel, 1)]]))

\* a direct call of FileUploader.uploadDirectory with a recording callback
uploadDirectory(t, P) == uploadDirectoryBy("direct", t, P)

\* a direct call of FileUploader.uploadDirectory with a callback that fails
\* on file_complete and file_skipped
uploadDirectoryThrowing(t, P) == uploadDirectoryBy("thrower", t, P)

\* listDocuments settles: getExistingFileHashes returns, uploadDirectory goes on
ListingSettles(t, P) ==
    /\ tasks[t].pc = "listing"
    /\ \E ok \in BOOLEAN, sel \in [1..Len(tasks[t].allFiles) -> P.remote] :
          LET listing == [ok |-> ok,
                          documents |-> documentsOf(tasks[t].allFiles, sel, 1)]
          IN  \E x \in {[World(t) EXCEPT
                                 !.t.existingHashes = getExistingFileHashes(listing),
                                 !.t.listing = IF ok THEN "ok" ELSE "failed"]} :
                  Commit(t, startUpload(x))

\* the transfer call of file k of a directory upload settles
TransferSettles(t) ==
    /\ tasks[t].pc = "batch"
    /\ \E k \in 1..Len(tasks[t].allFiles), ok \in BOOLEAN :
          /\ tasks[t].promise[k] = "pending"
          /\ Commit(t, IF ok THEN uploadFileResolved(World(t), k)
                             ELSE uploadFileRejected(World(t), k))

\* Promise.allSettled of the current batch resolves: track the results, then
\* the next batch or the end of uploadDirectory
BatchSettled(t) ==
    /\ tasks[t].pc = "batch"
    /\ \A k \in (batchStart(tasks[t]) + 1)..batchEnd(tasks[t]) :
           tasks[t].promise[k] # "pending"
    /\ LET tracked == trackResults(tasks[t], batchStart(tasks[t]) + 1, batchEnd(tasks[t]))
       IN  Commit(t, batchLoop([World(t) EXCEPT
                                    !.t = [tracked EXCEPT !.i = nextIndex(tracked)]]))

\* uploadDirectory has resolved: the awaiting caller goes on
Return(t) ==
    /\ tasks[t].pc = "returned"
    /\ Commit(t, IF tasks[t].caller = "job"
                 THEN [World(t) EXCEPT
                           !.file = markCompleted(configFile, tasks[t].opId, clock),
                           !.clk = @ + 1, !.t.pc = "done"]
                 ELSE [World(t) EXCEPT !.t.pc = "done"])

\* the transfer call of a single-file job settles
SingleSettles(t) ==
    /\ tasks[t].pc = "single"
    /\ \E ok \in BOOLEAN :
          Commit(t,
              IF ok
              THEN LET w == uploadFileResolved(World(t), 1)
                       id == w.t.opId
                   IN  [w EXCEPT !.file = markCompleted(
                                              updateProgress(w.file, id, 1, 0, 0),
                                              id, w.clk),
                                 !.clk = @ + 1, !.t.pc = "done"]
              ELSE [uploadFileRejected(World(t), 1) EXCEPT
                        !.t.pc = "rejected", !.t.error = "FileUploadError"])

\* the catch block of the background job
JobFails(t) ==
    /\ tasks[t].pc = "rejected"
    /\ Commit(t, [World(t) EXCEPT
                      !.file = markFailed(configFile, tasks[t].opId, tasks[t].error, clock),
                      !.clk = @ + 1, !.t.pc = "done"])

\* no library function is called from outside the upload pipeline
NoCall == [fn |-> "none"]

Init ==
    /\ configFile = [exists |-> FALSE, config |-> defaultConfig]
    /\ clock = 0
    /\ tasks = [t \in TaskIds |-> IdleTask]
    /\ call = NoCall

(***************************************************************************)
(* Spec: one upload job started through the tool handler.                  *)
(***************************************************************************)
JobScenario ==
    [tasks |-> {"t1"}, ids |-> {"op1"},
     paths |-> {"dir", "file", "missing", "special", "unreadable"},
     smart |-> BOOLEAN, kinds |-> FileKinds, maxFiles |-> MaxFiles,
     remote |-> RemoteContents]

JobNext(P) ==
    \E t \in P.tasks :
        \/ file_search_upload(t, P)
        \/ ListingSettles(t, P)
        \/ TransferSettles(t)
        \/ BatchSettled(t)
        \/ Return(t)
        \/ SingleSettles(t)
        \/ JobFails(t)

Next == JobNext(JobScenario)

Spec == Init /\ [][Next]_vars

(***************************************************************************)
(* SpecBatch: one direct call of uploadDirectory with parallel.maxConcurrent *)
(* given, as the unit tests call it.                                       *)
(***************************************************************************)
BatchScenario ==
    [tasks |-> {"t1"}, smart |-> BOOLEAN, kinds |-> FileKinds,
     maxFiles |-> MaxBatchFiles, conc |-> 1..MaxConc, remote |-> RemoteContents,
     places |-> {"."}, held |-> {"none"}]

NextBatch ==
    \E t \in BatchScenario.tasks :
        \/ uploadDirectory(t, BatchScenario)
        \/ ListingSettles(t, BatchScenario)
        \/ TransferSettles(t)
        \/ BatchSettled(t)
        \/ Return(t)

SpecBatch == Init /\ [][NextBatch]_vars

(***************************************************************************)
(* SpecScan: one direct call of uploadDirectory on a directory tree with   *)
(* subdirectories, some of them hidden.                                    *)
(***************************************************************************)
ScanScenario ==
    [tasks |-> {"t1"}, smart |-> BOOLEAN,
     kinds |-> { k \in FileKinds : k.ext \in {".txt", ".ts", ""} },
     maxFiles |-> MaxScanFiles, conc |-> {DefaultMaxConcurrent},
     remote |-> {"none", "a"}, places |-> Places, held |-> {"none", "a"}]

NextScan ==
    \E t \in ScanScenario.tasks :
        \/ uploadDirectory(t, ScanScenario)
        \/ ListingSettles(t, ScanScenario)
        \/ TransferSettles(t)
        \/ BatchSettled(t)
        \/ Return(t)

SpecScan == Init /\ [][NextScan]_vars

(***************************************************************************)
(* SpecJobs: two jobs started through the tool handler run concurrently.   *)
(***************************************************************************)
JobsScenario ==
    [tasks |-> TaskIds, ids |-> OpIds, paths |-> {"dir", "file", "unreadable"},
     smart |-> BOOLEAN, kinds |-> FewKinds, maxFiles |-> MaxJobFiles,
     remote |-> {"none", "a"}]

NextJobs == JobNext(JobsScenario)

SpecJobs == Init /\ [][NextJobs]_vars

(***************************************************************************)
(* SpecLive: one job through the tool handler, where every settlement the  *)
(* job awaits arrives and every continuation that is ready runs: the       *)
(* listing call and each transfer call settle, and the event loop runs the *)
(* continuation of a settled promise.                                      *)
(***************************************************************************)
LiveScenario ==
    [tasks |-> {"t1"}, ids |-> {"op1"},
     paths |-> {"dir", "file", "missing", "special", "unreadable"},
     smart |-> BOOLEAN, kinds |-> FileKinds, maxFiles |-> MaxLiveFiles,
     remote |-> RemoteContents]

NextLive == JobNext(LiveScenario)

\* a settlement arrives, or the continuation of a settled promise runs; at
\* most one of these is enabled for an invocation at a time
Resumes(t, P) ==
    \/ ListingSettles(t, P)
    \/ TransferSettles(t)
    \/ BatchSettled(t)
    \/ Return(t)
    \/ SingleSettles(t)
    \/ JobFails(t)

Fairness(P) == \A t \in P.tasks : WF_vars(Resumes(t, P))

SpecLive == Init /\ [][NextLive]_vars /\ Fairness(LiveScenario)

(***************************************************************************)
(* SpecLoop: one direct call of uploadDirectory with any integer a caller  *)
(* may pass as parallel.maxConcurrent (the code checks none), where the    *)
(* listing call and every transfer call settle and every continuation that *)
(* is ready runs.                                                          *)
(***************************************************************************)
MaxLoopFiles == 2

LoopScenario ==
    [tasks |-> {"t1"}, smart |-> BOOLEAN, kinds |-> FewKinds,
     maxFiles |-> MaxLoopFiles, conc |-> (0 - 2)..2, remote |-> {"none", "a"},
     places |-> {"."}, held |-> {"none"}]

NextLoop ==
    \E t \in LoopScenario.tasks :
        \/ uploadDirectory(t, LoopScenario)
        \/ ListingSettles(t, LoopScenario)
        \/ TransferSettles(t)
        \/ BatchSettled(t)
        \/ Return(t)

SpecLoop == Init /\ [][NextLoop]_vars /\ Fairness(LoopScenario)

(***************************************************************************)
(* SpecSync: smart-sync uploads of one unchanged directory into one store, *)
(* one after the other.  The store keeps every document a transfer         *)
(* created, with the metadata uploadFile attached to it, next to the       *)
(* documents it held before; nothing in the pipeline deletes a document.   *)
(* listDocuments returns the documents of the store in an order the        *)
(* service chooses.  call is [fn, dir, store, run, clean]: the files of    *)
(* the directory, the documents of the store, the number of the run, and   *)
(* whether every transfer of the first run succeeded.                      *)
(***************************************************************************)
MaxSyncFiles == 2

MaxRuns == 2

\* two accepted files of different content
SyncKinds == { k \in FileKinds : k.ext \in {".txt", ".ts"} }

\* the document the store creates for a transfer of file f: config.metadata
\* {path: relativePath, hash, last_modified} as its customMetadata
uploadedDocument(f, n) ==
    [name |-> DocumentNames[n],
     customMetadata |-> << [key |-> "path", stringValue |-> f.name],
                           [key |-> "hash", stringValue |-> getFileHash(f)],
                           [key |-> "last_modified", stringValue |-> "mtime"] >>]

\* the orders a listing of n documents can come in
Orders(n) == { p \in [1..n -> 1..n] : \A a, b \in 1..n : p[a] = p[b] => a = b }

listDocuments(store, p) == [d \in 1..Len(store) |-> store[p[d]]]

InitSync ==
    /\ configFile = [exists |-> FALSE, config |-> defaultConfig]
    /\ clock = 0
    /\ tasks = [t \in TaskIds |-> IdleTask]
    /\ \E n \in 0..MaxSyncFiles :
          \E ks \in [1..n -> SyncKinds], sel \in [1..n -> RemoteContents] :
              call = [fn |-> "sync", dir |-> scan(entriesOf(ks)),
                      store |-> documentsOf(scan(entriesOf(ks)), sel, 1),
                      run |-> 0, clean |-> TRUE]

\* the turn of invocation t ends in world w and leaves the store as c says
SyncCommit(t, w, c) ==
    \E x \in {w} :
        /\ tasks' = [tasks EXCEPT ![t] = x.t]
        /\ configFile' = x.file
        /\ clock' = x.clk
        /\ call' = c

\* uploadDirectory(dir, store, {smartSync: true}) is called: the first run,
\* or the next one once the run before has returned
SyncUpload(t) ==
    /\ call.run < MaxRuns
    /\ tasks[t].pc = (IF call.run = 0 THEN "idle" ELSE "done")
    /\ SyncCommit(t, uploadDirectoryBegin(
                         [World(t) EXCEPT
                              !.t = newTask("direct", "none", TRUE, TRUE,
                                            DefaultMaxConcurrent, call.dir)]),
                  [call EXCEPT !.run = @ + 1])

\* listDocuments resolves with the documents of the store in some order
SyncListed(t) ==
    /\ tasks[t].pc = "listing"
    /\ \E p \in Orders(Len(call.store)) :
          LET listing == [ok |-> TRUE, documents |-> listDocuments(call.store, p)]
          IN  \E x \in {[World(t) EXCEPT
                                 !.t.existingHashes = getExistingFileHashes(listing),
                                 !.t.listing = "ok"]} :
                  SyncCommit(t, startUpload(x), call)

\* the transfer call of file k settles: a transfer that succeeds leaves a
\* new document in the store
SyncTransferred(t) ==
    /\ tasks[t].pc = "batch"
    /\ \E k \in 1..Len(tasks[t].allFiles), ok \in BOOLEAN :
          /\ tasks[t].promise[k] = "pending"
          /\ IF ok
             THEN SyncCommit(t, uploadFileResolved(World(t), k),
                             [call EXCEPT !.store =
                                  Append(@, uploadedDocument(tasks[t].allFiles[k],
                                                             Len(@) + 1))])
             ELSE SyncCommit(t, uploadFileRejected(World(t), k),
                             [call EXCEPT !.clean = (call.run # 1) /\ @])

NextSync ==
    \E t \in {"t1"} :
        \/ SyncUpload(t)
        \/ SyncListed(t)
        \/ SyncTransferred(t)
        \/ BatchSettled(t)
        \/ Return(t)

SpecSync == InitSync /\ [][NextSync]_vars

(***************************************************************************)
(* SpecThrow: one direct call of uploadDirectory by a caller whose         *)
(* progress callback throws when it handles a file_complete or a           *)
(* file_skipped event.                                                     *)
(***************************************************************************)
MaxThrowFiles == 2

ThrowScenario ==
    [tasks |-> {"t1"}, smart |-> BOOLEAN, kinds |-> FileKinds,
     maxFiles |-> MaxThrowFiles, conc |-> 1..MaxConc, remote |-> RemoteContents,
     places |-> {"."}, held |-> {"none"}]

NextThrow ==
    \E t \in ThrowScenario.tasks :
        \/ uploadDirectoryThrowing(t, ThrowScenario)
        \/ ListingSettles(t, ThrowScenario)
        \/ TransferSettles(t)
        \/ BatchSettled(t)
        \/ Return(t)

SpecThrow == Init /\ [][NextThrow]_vars

(***************************************************************************)
(* SpecClassify: getMimeTypeWithFallback called on one file path.  The     *)
(* path ends with an entry of one of the two tables, spelled as the table  *)
(* spells it, in small letters or in capitals, or with an extension of     *)
(* neither table.                                                          *)
(***************************************************************************)
TableMembers == DOMAIN EXTENSION_TO_MIME \cup TEXT_FALLBACK_EXTENSIONS

\* extensions of neither table ("": a base name without extension)
OtherExtensions == {".exe", ".EXE", ".png", ""}

\* the spellings of the table entry m the model's paths carry
Spellings(m) ==
    {m, toLowerCase(m)}
        \cup { u \in DOMAIN LowerCaseOf : LowerCaseOf[u] = toLowerCase(m) }

\* a path to classify: its suffix ext and the table entry it spells
ClassifyInputs ==
    UNION { { [ext |-> e, member |-> m] : e \in Spellings(m) } : m \in TableMembers }
        \cup { [ext |-> e, member |-> "none"] : e \in OtherExtensions }

InitClassify ==
    /\ configFile = [exists |-> FALSE, config |-> defaultConfig]
    /\ clock = 0
    /\ tasks = [t \in TaskIds |-> IdleTask]
    /\ call \in { [fn |-> "getMimeTypeWithFallback",
                    filePath |-> [name |-> FileNames[1], ext |-> i.ext],
                    member |-> i.member, returned |-> FALSE] : i \in ClassifyInputs }

\* the call returns
Classify ==
    /\ call.fn = "getMimeTypeWithFallback" /\ ~call.returned
    /\ call' = [returned |-> TRUE, result |-> getMimeTypeWithFallback(call.filePath)]
                    @@ call
    /\ UNCHANGED <<configFile, clock, tasks>>

NextClassify == Classify

SpecClassify == InitClassify /\ [][NextClassify]_vars

(***************************************************************************)
(* SpecSize: validateFileSize called on the stats of one file, whose size  *)
(* is 0 or lies within SizeSpread bytes of the limit.                      *)
(***************************************************************************)
SizeSpread == 32

FileSizes ==
    {0} \cup ((MAX_FILE_SIZE_BYTES - SizeSpread)..(MAX_FILE_SIZE_BYTES + SizeSpread))

InitSize ==
    /\ configFile = [exists |-> FALSE, config |-> defaultConfig]
    /\ clock = 0
    /\ tasks = [t \in TaskIds |-> IdleTask]
    /\ call \in { [fn |-> "validateFileSize", stats |-> [size |-> s],
                    returned |-> FALSE] : s \in FileSizes }

\* the call returns, or throws the error `result` names
ValidateFileSize ==
    /\ call.fn = "validateFileSize" /\ ~call.returned
    /\ call' = [returned |-> TRUE, result |-> validateFileSize(call.stats)] @@ call
    /\ UNCHANGED <<configFile, clock, tasks>>

NextSize == ValidateFileSize

SpecSize == InitSize /\ [][NextSize]_vars

(***************************************************************************)
(* SpecHashes: getExistingFileHashes called on a store whose listing       *)
(* resolves or rejects.  Each listed document may lack its name or its     *)
(* customMetadata; the metadata holds at most one item per key, after an   *)
(* item that is null or carries another key, and the path and hash items   *)
(* may lack their value.                                                   *)
(***************************************************************************)
MaxDocuments == 2

\* a metadata item that is null or undefined (it has no field at all)
NullItem == [isNull |-> TRUE]

\* the items that may precede the path and hash items
LeadingItems ==
    { <<>>, <<NullItem>>, <<[key |-> "last_modified", stringValue |-> "2025-01-01"]>> }

PathItems(d) ==
    { <<>>, <<[key |-> "path", stringValue |-> FileNames[d]]>>, <<[key |-> "path"]>> }

HashItems ==
    { <<>>, <<[key |-> "hash", stringValue |-> SHA256["a"]]>>,
      <<[key |-> "hash", stringValue |-> ""]>> }

\* what the d-th listed document may be
DocumentInputs(d) ==
    { [name |-> DocumentNames[d], customMetadata |-> l \o p \o h] :
          l \in LeadingItems, p \in PathItems(d), h \in HashItems }
        \cup { [name |-> DocumentNames[d]],
               [customMetadata |-> << [key |-> "path", stringValue |-> FileNames[d]],
                                      [key |-> "hash", stringValue |-> SHA256["a"]] >>] }

\* the lists of n documents
RECURSIVE DocumentLists(_)
DocumentLists(n) ==
    IF n = 0 THEN {<<>>}
    ELSE { Append(docs, doc) : docs \in DocumentLists(n - 1), doc \in DocumentInputs(n) }

\* the outcomes of listDocuments with up to max documents
ListingInputs(max) ==
    UNION { { [ok |-> ok, documents |-> docs] :
                  ok \in BOOLEAN, docs \in DocumentLists(n) } :
            n \in 1..max }

InitHashes ==
    /\ configFile = [exists |-> FALSE, config |-> defaultConfig]
    /\ clock = 0
    /\ tasks = [t \in TaskIds |-> IdleTask]
    /\ call \in { [fn |-> "getExistingFileHashes", listing |-> l, returned |-> FALSE] :
                      l \in ListingInputs(MaxDocuments) }

\* the call returns its map
GetExistingFileHashes ==
    /\ call.fn = "getExistingFileHashes" /\ ~call.returned
    /\ call' = [returned |-> TRUE, result |-> getExistingFileHashes(call.listing)] @@ call
    /\ UNCHANGED <<configFile, clock, tasks>>

NextHashes == GetExistingFileHashes

SpecHashes == InitHashes /\ [][NextHashes]_vars

(***************************************************************************)
(* SpecSupported: isExtensionSupported, or                                 *)
(* isExtensionSupportedWithFallback, called twice, on two spellings of one *)
(* extension: as a table spells it, in small letters or in capitals, with  *)
(* or without the leading dot.                                             *)
(***************************************************************************)
\* the spellings of an extension that is m with its leading dot
ExtensionArguments(m) ==
    { [startsWithDot |-> d, dotted |-> e] :
          d \in BOOLEAN,
          e \in IF m \in TableMembers THEN Spellings(m)
                ELSE { x \in OtherExtensions : toLowerCase(x) = toLowerCase(m) } }

SupportedInputs ==
    UNION { { [extensions |-> <<e1, e2>>, member |-> m] :
                  e1 \in ExtensionArguments(m), e2 \in ExtensionArguments(m) } :
            m \in TableMembers \cup (OtherExtensions \ {""}) }

InitSupported ==
    /\ configFile = [exists |-> FALSE, config |-> defaultConfig]
    /\ clock = 0
    /\ tasks = [t \in TaskIds |-> IdleTask]
    /\ call \in { [fn |-> fn, results |-> <<>>] @@ i :
                      fn \in {"isExtensionSupported", "isExtensionSupportedWithFallback"},
                      i \in SupportedInputs }

\* the next call of isExtensionSupported returns
IsExtensionSupported ==
    /\ call.fn = "isExtensionSupported" /\ Len(call.results) < Len(call.extensions)
    /\ call' = [call EXCEPT !.results =
                     Append(@, isExtensionSupported(call.extensions[Len(@) + 1]))]
    /\ UNCHANGED <<configFile, clock, tasks>>

\* the next call of isExtensionSupportedWithFallback returns
IsExtensionSupportedWithFallback ==
    /\ call.fn = "isExtensionSupportedWithFallback"
    /\ Len(call.results) < Len(call.extensions)
    /\ call' = [call EXCEPT !.results =
                     Append(@, isExtensionSupportedWithFallback(call.extensions[Len(@) + 1]))]
    /\ UNCHANGED <<configFile, clock, tasks>>

NextSupported == IsExtensionSupported \/ IsExtensionSupportedWithFallback

SpecSupported == InitSupported /\ [][NextSupported]_vars

(***************************************************************************)
(* SpecStore: the methods of UploadOperationManager called in any order,   *)
(* with IDs that have a record and IDs that have none.  `call` is the last *)
(* call: the method, its arguments and what it returned.                   *)
(***************************************************************************)
\* the updates updateOperation is called with
UpdateInputs ==
    { [completedFiles |-> 1], [status |-> "in_progress", totalFiles |-> 2] }

\* the counters updateProgress is called with
ProgressInputs == { <<1, 0, 0>>, <<1, 1, 1>> }

\* one more call is made, at a later time
Called(c) ==
    /\ clock < MaxCalls
    /\ clock' = clock + 1
    /\ call' = c
    /\ UNCHANGED tasks

CreateOperation ==
    \E id \in OpIds \ DOMAIN load(configFile).uploadOperations, smartSync \in BOOLEAN :
        /\ configFile' = createOperation(configFile, id, "dir", StoreName, smartSync, clock)
        /\ Called([fn |-> "createOperation", id |-> id, path |-> "dir",
                   storeName |-> StoreName, smartSync |-> smartSync,
                   now |-> clock, result |-> stored(configFile', id)])

UpdateOperation ==
    \E id \in OpIds, updates \in UpdateInputs :
        /\ configFile' = updateOperation(configFile, id, updates)
        /\ Called([fn |-> "updateOperation", id |-> id, updates |-> updates,
                   result |-> stored(configFile', id)])

MarkInProgress ==
    \E id \in OpIds :
        /\ configFile' = markInProgress(configFile, id, 2)
        /\ Called([fn |-> "markInProgress", id |-> id,
                   result |-> stored(configFile', id)])

MarkCompleted ==
    \E id \in OpIds :
        /\ configFile' = markCompleted(configFile, id, clock)
        /\ Called([fn |-> "markCompleted", id |-> id,
                   result |-> stored(configFile', id)])

MarkFailed ==
    \E id \in OpIds :
        /\ configFile' = markFailed(configFile, id, "EACCES", clock)
        /\ Called([fn |-> "markFailed", id |-> id,
                   result |-> stored(configFile', id)])

UpdateProgress ==
    \E id \in OpIds, n \in ProgressInputs :
        /\ configFile' = updateProgress(configFile, id, n[1], n[2], n[3])
        /\ Called([fn |-> "updateProgress", id |-> id,
                   result |-> stored(configFile', id)])

AddFailedFile ==
    \E id \in OpIds, f \in {FileNames[1], FileNames[2]} :
        /\ configFile' = addFailedFile(configFile, id, f, TransferError)
        /\ Called([fn |-> "addFailedFile", id |-> id, file |-> f,
                   error |-> TransferError, result |-> stored(configFile', id)])

NextStore ==
    \/ CreateOperation
    \/ UpdateOperation
    \/ MarkInProgress
    \/ MarkCompleted
    \/ MarkFailed
    \/ UpdateProgress
    \/ AddFailedFile

SpecStore == Init /\ [][NextStore]_vars

(***************************************************************************)
(* SpecProcesses: two processes that share the workspace file.  Each       *)
(* creates its own job record and updates it; the synchronous file reads   *)
(* and writes of one process are single steps, and the steps of the two    *)
(* processes interleave freely.  call.procs[p] is the position of process  *)
(* p inside a call: the configuration it has read and the record it is     *)
(* about to set; call.saved lists the records written, in order.           *)
(***************************************************************************)
MaxSteps == 7

ProcessIds == {"p1", "p2"}

\* the job of each process
JobOf == ("p1" :> "op1") @@ ("p2" :> "op2")

IdleProcess == [pc |-> "idle", config |-> defaultConfig, operation |-> <<>>]

\* the file the process writes, holding the configuration it read, is
\* replaced by what another process has written since
writeBack_reread(file, config, id, operation) == setUploadOperation(file, id, operation)

\* setUploadOperation after its load(): config.uploadOperations[id] = operation;
\* save(config), whatever the file holds by now
writeBack(file, config, id, operation) == setUploadOperation(save(config), id, operation)

InitProcesses ==
    /\ configFile = [exists |-> FALSE, config |-> defaultConfig]
    /\ clock = 0
    /\ tasks = [t \in TaskIds |-> IdleTask]
    /\ call = [fn |-> "processes", procs |-> [p \in ProcessIds |-> IdleProcess],
               saved |-> <<>>]

\* one file access of process p: the file is left as `file`, p as `proc`
Accessed(p, file, proc) ==
    /\ clock < MaxSteps
    /\ clock' = clock + 1
    /\ configFile' = file
    /\ call' = [call EXCEPT !.procs[p] = proc]
    /\ UNCHANGED tasks

\* createOperation up to the load() of setUploadOperation
BeginCreate(p) ==
    /\ call.procs[p].pc = "idle"
    /\ \A j \in 1..Len(call.saved) : call.saved[j][1] # JobOf[p]
    /\ \E smartSync \in BOOLEAN :
          Accessed(p, loaded(configFile),
                   [pc |-> "loaded", config |-> load(configFile),
                    operation |->
                        <<getOperation(createOperation(configFile, JobOf[p], "dir", StoreName,
                                                       smartSync, clock), JobOf[p])>>])

\* updateOperation up to the return of getOperation
BeginUpdate(p) ==
    /\ call.procs[p].pc = "idle"
    /\ \E updates \in UpdateInputs :
          IF ~hasUploadOperation(configFile, JobOf[p])
          THEN Accessed(p, loaded(configFile), IdleProcess)
          ELSE Accessed(p, loaded(configFile),
                        [pc |-> "got", config |-> defaultConfig,
                         operation |-> <<updates @@ getOperation(configFile, JobOf[p])>>])

\* the load() of setUploadOperation, called by updateOperation
Load(p) ==
    /\ call.procs[p].pc = "got"
    /\ Accessed(p, loaded(configFile),
                [call.procs[p] EXCEPT !.pc = "loaded", !.config = load(configFile)])

\* the save() of setUploadOperation
Save(p) ==
    /\ call.procs[p].pc = "loaded"
    /\ clock < MaxSteps
    /\ clock' = clock + 1
    /\ configFile' = writeBack(configFile, call.procs[p].config, JobOf[p],
                               call.procs[p].operation[1])
    /\ call' = [call EXCEPT !.procs[p] = IdleProcess,
                            !.saved = Append(@, <<JobOf[p], call.procs[p].operation[1]>>)]
    /\ UNCHANGED tasks

NextProcesses ==
    \E p \in ProcessIds : BeginCreate(p) \/ BeginUpdate(p) \/ Load(p) \/ Save(p)

SpecProcesses == InitProcesses /\ [][NextProcesses]_vars

(***************************************************************************)
(* SpecFrame: job records created and updated while research IDs and file  *)
(* search stores are added to the same workspace file.                     *)
(***************************************************************************)
ResearchIds == {"interactions/1", "interactions/2"}

StoreDisplayNames == {"docs"}

AddResearchId ==
    \E id \in ResearchIds :
        /\ configFile' = addResearchId(configFile, id)
        /\ Called([fn |-> "addResearchId", id |-> id])

AddFileSearchStore ==
    \E name \in StoreDisplayNames :
        /\ configFile' = addFileSearchStore(configFile, name, StoreName)
        /\ Called([fn |-> "addFileSearchStore", name |-> name, resourceName |-> StoreName])

NextFrame ==
    \/ CreateOperation
    \/ UpdateOperation
    \/ AddResearchId
    \/ AddFileSearchStore

SpecFrame == Init /\ [][NextFrame]_vars

(***************************************************************************)
(* Vocabulary of the properties.                                           *)
(***************************************************************************)
\* the persisted job records
Operations == load(configFile).uploadOperations

Running == { t \in TaskIds : tasks[t].pc # "idle" /\ tasks[t].pc # "refused" }

DirectoryRuns == { t \in Running : tasks[t].isDir }

DirectoryJobs == { t \in DirectoryRuns : tasks[t].caller = "job" }

Files(t) == 1..Len(tasks[t].allFiles)

PerFileErrors == {"FileSizeExceededError", "UnsupportedFileTypeError", "FileUploadError"}

\* the promise of file k has settled
Settled(t, k) == tasks[t].promise[k] \in {"fulfilled", "skipped"} \cup PerFileErrors

\* file k has been dispatched in some way
Dispatched(t, k) ==
    \/ tasks[t].promise[k] # "none"
    \/ tasks[t].hashCalls[k] > 0
    \/ tasks[t].transferCalls[k] > 0
    \/ \E e \in 1..Len(tasks[t].events) :
          /\ "currentFileIndex" \in DOMAIN tasks[t].events[e]
          /\ tasks[t].events[e].currentFileIndex = k

\* the batch (0-based) file k belongs to
BatchOf(t, k) == (k - 1) \div tasks[t].maxConcurrent

Outstanding(t) == { k \in Files(t) : tasks[t].promise[k] = "pending" }

EventsOfType(t, type) ==
    { e \in 1..Len(tasks[t].events) : tasks[t].events[e].type = type }

\* file k passes the size check and the content-type check
Valid(f) == validateFileSize(f) = "ok" /\ determineMimeType(f) # "UnsupportedFileTypeError"

Count(S) == Cardinality(S)

(***************************************************************************)
(* C1: in uploadDirectory with maxConcurrent = C >= 1, at most C transfer  *)
(* calls are outstanding at any time, and no file of a later batch is      *)
(* dispatched in any way (hash, size check, file_start, transfer call)     *)
(* while a file of an earlier batch has not settled.                       *)
(***************************************************************************)
C1_BoundedBatches ==
    \A t \in DirectoryRuns :
        /\ Count(Outstanding(t)) <= tasks[t].maxConcurrent
        /\ \A k, j \in Files(t) :
              (BatchOf(t, k) < BatchOf(t, j) /\ Dispatched(t, j)) => Settled(t, k)

\* two of three files were outstanding together and transferred; the third,
\* of the next batch, is outstanding now
C1_Witness ==
    \E t \in DirectoryRuns :
        /\ tasks[t].maxConcurrent = 2 /\ Len(tasks[t].allFiles) = 3
        /\ tasks[t].promise = <<"fulfilled", "fulfilled", "pending">>

(***************************************************************************)
(* C2: the `complete` event of a directory upload carries counters with    *)
(* completedFiles + skippedFiles + failedFiles = totalFiles, and that      *)
(* totalFiles is the one the `start` event carried.                        *)
(***************************************************************************)
C2_CompleteEventSums ==
    \A t \in DirectoryRuns :
        \A e \in EventsOfType(t, "complete") :
            LET ev == tasks[t].events[e]
            IN  /\ ev.completedFiles + ev.skippedFiles + ev.failedFiles = ev.totalFiles
                /\ tasks[t].events[1].type = "start"
                /\ tasks[t].events[1].totalFiles = ev.totalFiles

\* a stream that ends with one file skipped, one rejected for its size and
\* one whose transfer failed
C2_Witness ==
    \E t \in DirectoryRuns :
        /\ EventsOfType(t, "complete") # {}
        /\ \E k \in Files(t) : tasks[t].promise[k] = "skipped"
        /\ \E k \in Files(t) : tasks[t].promise[k] = "FileSizeExceededError"
        /\ \E k \in Files(t) : tasks[t].promise[k] = "FileUploadError"

\* the persisted record of the job task t runs
OperationOf(t) == Operations[tasks[t].opId]

\* the files of t whose per-file pipeline failed
Failures(t) == { k \in Files(t) : tasks[t].promise[k] \in PerFileErrors }

(***************************************************************************)
(* C3: whenever the persisted record of a directory job is `completed`,    *)
(* its counters satisfy completedFiles + skippedFiles + failedFiles =      *)
(* totalFiles.                                                             *)
(***************************************************************************)
C3_CompletedRecordSums ==
    \A t \in DirectoryJobs :
        OperationOf(t).status = "completed" =>
            OperationOf(t).completedFiles + OperationOf(t).skippedFiles
                + OperationOf(t).failedFiles = OperationOf(t).totalFiles

(***************************************************************************)
(* C4: the persisted status only moves pending -> in_progress ->           *)
(* completed | failed (or pending -> failed), no record disappears, and a  *)
(* record whose status is completed or failed is never changed again, by   *)
(* its own job or by another one.                                          *)
(***************************************************************************)
TerminalStatus == {"completed", "failed"}

StatusMoves ==
    { <<"pending", "in_progress">>, <<"pending", "failed">>,
      <<"in_progress", "completed">>, <<"in_progress", "failed">> }

C4_TerminalAbsorbing ==
    [][ \A id \in DOMAIN Operations :
            /\ id \in DOMAIN Operations'
            /\ \/ Operations'[id].status = Operations[id].status
               \/ <<Operations[id].status, Operations'[id].status>> \in StatusMoves
            /\ Operations[id].status \in TerminalStatus
                   => Operations'[id] = Operations[id] ]_vars

\* one job has ended while the other has a transfer outstanding
C4_Witness ==
    \E t, u \in Running :
        /\ t # u
        /\ tasks[t].caller = "job" /\ tasks[u].caller = "job"
        /\ OperationOf(t).status \in TerminalStatus
        /\ OperationOf(u).status = "in_progress"
        /\ Outstanding(u) # {}

(***************************************************************************)
(* C5: in every job, directory or single file, a per-file error (size,     *)
(* content type, transfer) never makes the job `failed`: the job ends      *)
(* `completed` with the file counted in failedFiles.                       *)
(***************************************************************************)
C5_PerFileErrorNeverFailsJob ==
    \A t \in Running :
        (tasks[t].caller = "job" /\ tasks[t].pc = "done" /\ Failures(t) # {}) =>
            /\ OperationOf(t).status = "completed"
            /\ OperationOf(t).failedFiles = Count(Failures(t))

(***************************************************************************)
(* C6: in a completed directory job every file whose pipeline failed has   *)
(* exactly one entry in the persisted failedFilesList and counts once in   *)
(* the persisted failedFiles.                                              *)
(***************************************************************************)
C6_EveryFailureRecorded ==
    \A t \in DirectoryJobs :
        OperationOf(t).status = "completed" =>
            /\ OperationOf(t).failedFiles = Count(Failures(t))
            /\ \A k \in Failures(t) :
                  Count({ e \in 1..Len(OperationOf(t).failedFilesList) :
                            OperationOf(t).failedFilesList[e].file
                                = tasks[t].allFiles[k].name }) = 1

(***************************************************************************)
(* C7: a failing file never keeps another file of its batch or of a later  *)
(* batch from being processed, and uploadDirectory never rejects because   *)
(* of it: every file of the current batch is dispatched, and when          *)
(* uploadDirectory returns every file has settled.                         *)
(***************************************************************************)
C7_FailuresIsolated ==
    \A t \in DirectoryRuns :
        /\ tasks[t].pc # "rejected"
        /\ tasks[t].pc = "batch" =>
               \A k \in (tasks[t].i + 1)..batchEnd(tasks[t]) : tasks[t].promise[k] # "none"
        /\ tasks[t].pc \in {"returned", "done"} => \A k \in Files(t) : Settled(t, k)

\* the first file failed; its sibling and the file of the next batch were
\* transferred
C7_Witness ==
    \E t \in DirectoryRuns :
        /\ tasks[t].pc = "returned" /\ tasks[t].maxConcurrent = 2
        /\ Len(tasks[t].allFiles) = 3
        /\ tasks[t].promise[1] \in PerFileErrors
        /\ tasks[t].promise[2] = "fulfilled" /\ tasks[t].promise[3] = "fulfilled"

(***************************************************************************)
(* C8: smart sync with a fetched mapping.  A file the mapping records with *)
(* the local digest is never transferred and counts in skippedFiles; any   *)
(* other file is transferred exactly once.                                 *)
(***************************************************************************)
Unchanged(t, k) ==
    /\ tasks[t].allFiles[k].name \in DOMAIN tasks[t].existingHashes
    /\ tasks[t].existingHashes[tasks[t].allFiles[k].name].hash
           = getFileHash(tasks[t].allFiles[k])

SmartSyncRuns ==
    { t \in DirectoryRuns : tasks[t].smartSync /\ tasks[t].listing = "ok"
                            /\ tasks[t].pc \in {"returned", "done"} }

\* the claim as stated
C8_TransferredUnlessUnchanged ==
    \A t \in SmartSyncRuns :
        /\ tasks[t].skippedFiles = Count({ k \in Files(t) : Unchanged(t, k) })
        /\ \A k \in Files(t) :
              IF Unchanged(t, k)
              THEN tasks[t].transferCalls[k] = 0 /\ tasks[t].promise[k] = "skipped"
              ELSE tasks[t].transferCalls[k] = 1

\* the claim as amended: a new or changed file is transferred exactly once
\* if it passes the size and content-type checks, and never otherwise
C8_ValidTransferredUnlessUnchanged ==
    /\ \A t \in DirectoryRuns : \A k \in Files(t) : tasks[t].transferCalls[k] <= 1
    /\ \A t \in SmartSyncRuns :
        /\ tasks[t].skippedFiles = Count({ k \in Files(t) : Unchanged(t, k) })
        /\ \A k \in Files(t) :
              IF Unchanged(t, k)
              THEN tasks[t].transferCalls[k] = 0 /\ tasks[t].promise[k] = "skipped"
              ELSE IF Valid(tasks[t].allFiles[k])
              THEN tasks[t].transferCalls[k] = 1
              ELSE /\ tasks[t].transferCalls[k] = 0
                   /\ tasks[t].promise[k] \in {"FileSizeExceededError",
                                                "UnsupportedFileTypeError"}

\* an unchanged file skipped, a changed file and a new file transferred
C8_Witness ==
    \E t \in SmartSyncRuns :
        \E k, j, n \in Files(t) :
            /\ Unchanged(t, k) /\ tasks[t].promise[k] = "skipped"
            /\ tasks[t].allFiles[j].name \in DOMAIN tasks[t].existingHashes
            /\ ~Unchanged(t, j) /\ tasks[t].transferCalls[j] = 1
            /\ tasks[t].allFiles[n].name \notin DOMAIN tasks[t].existingHashes
            /\ tasks[t].transferCalls[n] = 1

(***************************************************************************)
(* C9: a file over the size ceiling is rejected with a size error and its  *)
(* digest is never computed, in every upload mode.                         *)
(***************************************************************************)
C9_OversizeNeverHashed ==
    \A t \in Running :
        \A k \in Files(t) :
            tasks[t].allFiles[k].size > MAX_FILE_SIZE_BYTES =>
                /\ tasks[t].hashCalls[k] = 0
                /\ Settled(t, k) => tasks[t].promise[k] = "FileSizeExceededError"

(***************************************************************************)
(* C10: when the remote listing fails in a smart-sync directory job, the   *)
(* job is not aborted and does not become `failed`: the mapping is empty,  *)
(* no file is skipped, and every file goes through the normal pipeline.    *)
(***************************************************************************)
C10_ListingFailureTolerated ==
    \A t \in DirectoryJobs :
        tasks[t].listing = "failed" =>
            /\ DOMAIN tasks[t].existingHashes = {}
            /\ tasks[t].skippedFiles = 0
            /\ \A k \in Files(t) : tasks[t].promise[k] # "skipped"
            /\ tasks[t].pc # "rejected"
            /\ OperationOf(t).status # "failed"
            /\ tasks[t].pc = "done" =>
                  /\ OperationOf(t).status = "completed"
                  /\ \A k \in Files(t) :
                        /\ tasks[t].promise[k] \in {"fulfilled"} \cup PerFileErrors
                        /\ tasks[t].transferCalls[k]
                               = IF Valid(tasks[t].allFiles[k]) THEN 1 ELSE 0

\* the listing failed although the store holds an identical copy of a file,
\* and the job completed with that file transferred
C10_Witness ==
    \E t \in DirectoryJobs :
        /\ tasks[t].listing = "failed" /\ tasks[t].pc = "done"
        /\ OperationOf(t).status = "completed"
        /\ \E k \in Files(t) : tasks[t].promise[k] = "fulfilled"

(***************************************************************************)
(* C11: the event stream of a directory upload has exactly one `start`     *)
(* and exactly one `complete` event once the upload has returned; `start`  *)
(* is the first event of the stream, before every file_start,              *)
(* file_complete, file_skipped and file_error, and `complete` is the last  *)
(* one, after all of them.                                                 *)
(***************************************************************************)
PerFileEvents == {"file_start", "file_complete", "file_skipped", "file_error"}

\* uploadDirectory has returned its results
Ended(t) == tasks[t].pc \in {"returned", "done"}

C11_StartFirstCompleteLast ==
    \A t \in DirectoryRuns :
        LET ev == tasks[t].events
            n == Len(ev)
        IN  /\ \A e \in 1..n :
                  /\ ev[e].type \in PerFileEvents \cup {"start", "complete"}
                  /\ ev[e].type = "start" <=> e = 1
                  /\ ev[e].type = "complete" => e = n /\ Ended(t)
            /\ Ended(t) => n >= 2 /\ ev[n].type = "complete"
            /\ Count(EventsOfType(t, "start")) <= 1
            /\ Count(EventsOfType(t, "complete")) <= 1
            /\ Ended(t) => /\ Count(EventsOfType(t, "start")) = 1
                           /\ Count(EventsOfType(t, "complete")) = 1

\* a returned upload of two batches whose stream holds every kind of event
C11_Witness ==
    \E t \in DirectoryRuns :
        /\ Ended(t) /\ tasks[t].maxConcurrent < Len(tasks[t].allFiles)
        /\ \A type \in PerFileEvents : EventsOfType(t, type) # {}

(***************************************************************************)
(* C12: for each file of a directory upload, the transfer call is made     *)
(* only after the file's file_start event; each file_start is followed by  *)
(* exactly one terminal event of that file, file_complete if the transfer  *)
(* resolved and file_error if it rejected, never both; a file skipped by   *)
(* smart sync has exactly one file_skipped event and no file_start.        *)
(***************************************************************************)
\* the positions of the events of the given type about file k
EventsFor(t, k, type) ==
    { e \in EventsOfType(t, type) : tasks[t].events[e].currentFileIndex = k }

Counters == {"totalFiles", "completedFiles", "skippedFiles", "failedFiles"}

C13_CountersNeverDecrease ==
    [][ \A id \in DOMAIN Operations :
            /\ id \in DOMAIN Operations'
            /\ \A c \in Counters : Operations'[id][c] >= Operations[id][c] ]_vars

\* a running job whose record counts one file of each outcome, the transfer
\* failure having been written before the completion
C13_Witness ==
    \E t \in DirectoryJobs :
        /\ OperationOf(t).status = "in_progress"
        /\ OperationOf(t).totalFiles = 3
        /\ OperationOf(t).completedFiles = 1
        /\ OperationOf(t).skippedFiles = 1
        /\ OperationOf(t).failedFiles = 1
        /\ \E e \in EventsOfType(t, "file_error"), c \in EventsOfType(t, "file_complete") :
              e < c

(***************************************************************************)
(* C14: every job created by an upload request eventually has status       *)
(* `completed` or `failed`, provided the listing call and every transfer   *)
(* call eventually settle; no job stays `pending` or `in_progress`         *)
(* forever.                                                                *)
(***************************************************************************)
Terminated(id) == id \in DOMAIN Operations /\ Operations[id].status \in TerminalStatus

C14_EveryJobEnds ==
    \A id \in OpIds : (id \in DOMAIN Operations) ~> Terminated(id)

\* a smart-sync directory job has ended after its listing and the transfers
\* of both of its files settled, one of them by rejecting
C14_Witness ==
    \E t \in DirectoryJobs :
        /\ Terminated(tasks[t].opId)
        /\ tasks[t].smartSync /\ tasks[t].listing # "none"
        /\ \E k, j \in Files(t) :
              tasks[t].promise[k] = "fulfilled" /\ tasks[t].promise[j] = "FileUploadError"

(***************************************************************************)
(* C15: the upload request returns the operation ID without waiting for    *)
(* any transfer to settle, and when it returns a record with that ID is in *)
(* the store; a status query for a returned ID never answers 'Operation    *)
(* not found'.                                                             *)
(***************************************************************************)
\* the jobs whose request has returned an operation ID
Returned == { t \in Running : tasks[t].caller = "job" }

\* the turn in which the request of t is handled and its ID returned
Requested(t) == tasks[t].pc = "idle" /\ tasks'[t].pc \notin {"idle", "refused"}

C15_IdReturnedAtOnce ==
    /\ [](\A t \in Returned :
              ~file_search_upload_status(configFile, tasks[t].opId).isError)
    /\ [][ \A t \in TaskIds :
               Requested(t) =>
                   /\ tasks'[t].opId \in DOMAIN Operations'
                   /\ Operations'[tasks'[t].opId].id = tasks'[t].opId
                   /\ Operations'[tasks'[t].opId].status \in {"pending", "in_progress"}
                   /\ \A k \in 1..Len(tasks'[t].allFiles) :
                         tasks'[t].promise[k] \notin {"fulfilled", "FileUploadError"} ]_vars

\* the request has returned while the transfer it started is outstanding,
\* and a status query answers with the record of the job
C15_Witness ==
    \E t \in Returned :
        /\ Outstanding(t) # {}
        /\ \A k \in Files(t) : tasks[t].promise[k] \notin {"fulfilled", "FileUploadError"}
        /\ LET answer == file_search_upload_status(configFile, tasks[t].opId)
           IN  /\ ~answer.isError
               /\ answer.operationId = tasks[t].opId
               /\ answer.status = "in_progress"
               /\ answer.progress.completedFiles = 0

(***************************************************************************)
(* C16: the scan of uploadDirectory yields no file that lies below the     *)
(* root inside a directory whose name starts with "." and no file whose    *)
(* own base name starts with ".": no such file is counted in totalFiles    *)
(* or dispatched.                                                          *)
(***************************************************************************)
\* the file lies inside a directory, below the root, whose name starts with "."
InHiddenDirectory(f) == \E d \in 1..Len(f.dir) : f.dir[d].hidden

C16_HiddenPruned ==
    \A t \in DirectoryRuns :
        \A k \in Files(t) :
            /\ ~tasks[t].allFiles[k].hidden
            /\ ~InHiddenDirectory(tasks[t].allFiles[k])

(***************************************************************************)
(* C17: classification returns the verified type with isFallback = FALSE   *)
(* for a path whose extension is a key of the verified allow-list,         *)
(* text/plain with isFallback = TRUE for one whose extension is in the     *)
(* fallback set only, and rejects every other path; this for every entry   *)
(* of both tables as written, in any letter case.                          *)
(***************************************************************************)
\* what the claim expects for a path that spells the table entry m
ExpectedClass(m) ==
    IF m \in DOMAIN EXTENSION_TO_MIME
    THEN [mimeType |-> EXTENSION_TO_MIME[m], isFallback |-> FALSE]
    ELSE IF m \in TEXT_FALLBACK_EXTENSIONS
         THEN [mimeType |-> "text/plain", isFallback |-> TRUE]
         ELSE [mimeType |-> null, isFallback |-> FALSE]

C17_ClassifiedByTable ==
    (call.fn = "getMimeTypeWithFallback" /\ call.returned) =>
        call.result = ExpectedClass(call.member)

(***************************************************************************)
(* C18: updateOperation, markInProgress, markCompleted, markFailed,        *)
(* updateProgress and addFailedFile called with an ID that has no record   *)
(* return undefined, create no record for that ID and leave every          *)
(* existing record unchanged.                                              *)
(***************************************************************************)
Mutators ==
    {"updateOperation", "markInProgress", "markCompleted", "markFailed",
     "updateProgress", "addFailedFile"}

\* this step is a call of the method fn
Calls(fn) == clock' # clock /\ call'.fn = fn

C18_AbsentIdNoOp ==
    [][ \A fn \in Mutators :
            (Calls(fn) /\ call'.id \notin DOMAIN Operations) =>
                /\ call'.result = <<>>
                /\ call'.id \notin DOMAIN Operations'
                /\ Operations' = Operations ]_vars

\* a mutator was called with an ID that has no record while another ID has
\* one, and returned undefined
C18_Witness ==
    /\ call.fn \in Mutators
    /\ call.id \notin DOMAIN Operations
    /\ call.result = <<>>
    /\ DOMAIN Operations # {}

(***************************************************************************)
(* C19: createOperation persists a new record with status `pending`, the   *)
(* given path, storeName and smartSync, completedFiles = skippedFiles =    *)
(* failedFiles = 0, an empty failedFilesList and no completedAt or error;  *)
(* getOperation with the returned ID yields an equal record; the new ID    *)
(* differs from every ID in the store, and no existing record is           *)
(* overwritten.                                                            *)
(***************************************************************************)
C19_CreatedPending ==
    [][ Calls("createOperation") =>
            LET id == call'.id
                created == call'.result
            IN  /\ id \notin DOMAIN Operations
                /\ id \in DOMAIN Operations'
                /\ created # <<>>
                /\ created[1].id = id
                /\ created[1].status = "pending"
                /\ created[1].path = call'.path
                /\ created[1].storeName = call'.storeName
                /\ created[1].smartSync = call'.smartSync
                /\ created[1].completedFiles = 0
                /\ created[1].skippedFiles = 0
                /\ created[1].failedFiles = 0
                /\ created[1].failedFilesList = <<>>
                /\ "completedAt" \notin DOMAIN created[1]
                /\ "error" \notin DOMAIN created[1]
                /\ getOperation(configFile', id) = created[1]
                /\ \A other \in DOMAIN Operations :
                      /\ other \in DOMAIN Operations'
                      /\ Operations'[other] = Operations[other] ]_vars

\* a record was created while the store held a record of an ended job
C19_Witness ==
    /\ call.fn = "createOperation"
    /\ Operations[call.id].status = "pending"
    /\ \E other \in DOMAIN Operations :
          other # call.id /\ Operations[other].status \in TerminalStatus

(***************************************************************************)
(* C20: across any sequence of operations on a job, failedFilesList only   *)
(* grows by appending: addFailedFile leaves the earlier entries unchanged  *)
(* and in order, puts the new {file, error} last and sets failedFiles to   *)
(* the new length; no other operation changes the list.                    *)
(***************************************************************************)
C20_FailedListAppendOnly ==
    [][ \A id \in DOMAIN Operations :
            /\ id \in DOMAIN Operations'
            /\ IF Calls("addFailedFile") /\ call'.id = id
               THEN /\ Operations'[id].failedFilesList
                          = Append(Operations[id].failedFilesList,
                                   [file |-> call'.file, error |-> call'.error])
                    /\ Operations'[id].failedFiles
                          = Len(Operations[id].failedFilesList) + 1
               ELSE Operations'[id].failedFilesList
                        = Operations[id].failedFilesList ]_vars

\* a second file was added to the list of a job after updateProgress had
\* written its counters
C20_Witness ==
    /\ call.fn = "addFailedFile"
    /\ call.id \in DOMAIN Operations
    /\ Operations[call.id].failedFilesList
           = << [file |-> FileNames[2], error |-> TransferError],
                [file |-> FileNames[1], error |-> TransferError] >>
    /\ Operations[call.id].failedFiles = 2

(***************************************************************************)
(* C21: every progress event of a directory upload, `start` and `complete` *)
(* included, carries a percentage that is an integer in 0..100 and equals  *)
(* round((completedFiles + skippedFiles) / totalFiles * 100) for the       *)
(* counters of that same event, also when files failed and when the        *)
(* directory is empty.                                                     *)
(***************************************************************************)
\* the counter an event carries, 0 when the event has no such field
Carried(ev, counter) == IF counter \in DOMAIN ev THEN ev[counter] ELSE 0

\* the percentage the counters of the event give; 0 of 0 files is read as 0
PercentageOf(ev) ==
    IF Carried(ev, "totalFiles") = 0 THEN 0
    ELSE Percentage(Carried(ev, "completedFiles") + Carried(ev, "skippedFiles"),
                    ev.totalFiles)

C21_PercentageFromCounters ==
    \A t \in DirectoryRuns :
        \A e \in 1..Len(tasks[t].events) :
            LET ev == tasks[t].events[e]
            IN  /\ "percentage" \in DOMAIN ev
                /\ ev.percentage \in 0..100
                /\ ev.percentage = PercentageOf(ev)

(***************************************************************************)
(* C22: an upload request whose path does not exist, or is neither a file  *)
(* nor a directory, yields a job record that reaches status `failed` with  *)
(* `error` and `completedAt` set.                                          *)
(***************************************************************************)
\* the requests answered with an error because of their path
Refused == { t \in TaskIds : tasks[t].pc = "refused" }

\* a record of a job that ended as failed, with its error and end time
FailedRecords ==
    { id \in DOMAIN Operations :
          /\ Operations[id].status = "failed"
          /\ "error" \in DOMAIN Operations[id]
          /\ "completedAt" \in DOMAIN Operations[id] }

C22_BadPathFailsJob ==
    \A t \in TaskIds : (t \in Refused) ~> (FailedRecords # {})

(***************************************************************************)
(* C23: a single-file job created with smartSync = true whose file the     *)
(* store already records, under the same path and with a hash equal to the *)
(* local digest, never calls the transfer and completes with               *)
(* skippedFiles = 1 and completedFiles = 0.                                *)
(***************************************************************************)
\* the jobs of requests for a single file
SingleJobs == { t \in Returned : ~tasks[t].isDir }

\* the store records the file of the single-file job t with the local digest
RecordedUnchanged(t) ==
    LET f == tasks[t].allFiles[1]
        existing == getExistingFileHashes([ok |-> TRUE, documents |-> tasks[t].store])
    IN  /\ f.name \in DOMAIN existing
        /\ existing[f.name].hash = getFileHash(f)

C23_SingleFileSkipped ==
    \A t \in SingleJobs :
        tasks[t].smartSync /\ RecordedUnchanged(t)
            => /\ tasks[t].transferCalls[1] = 0
               /\ tasks[t].pc = "done"
                    => /\ OperationOf(t).status = "completed"
                       /\ OperationOf(t).skippedFiles = 1
                       /\ OperationOf(t).completedFiles = 0

(***************************************************************************)
(* C24: in every event stream of a directory upload the counters of the    *)
(* `complete` event equal the numbers of per-file events: completedFiles   *)
(* the number of `file_complete` events, skippedFiles the number of        *)
(* `file_skipped` events, failedFiles the number of `file_error` events.   *)
(***************************************************************************)
\* the counter of the complete event equals the number of events of the type
Reconstructs(t, counter, type) ==
    \A e \in EventsOfType(t, "complete") :
        tasks[t].events[e][counter] = Count(EventsOfType(t, type))

C24_CountersFromEvents ==
    \A t \in DirectoryRuns :
        /\ Reconstructs(t, "completedFiles", "file_complete")
        /\ Reconstructs(t, "skippedFiles", "file_skipped")
        /\ Reconstructs(t, "failedFiles", "file_error")

(***************************************************************************)
(* C25: a file of exactly 100 * 1024 * 1024 bytes is accepted, a file one  *)
(* byte larger is rejected with FileSizeExceededError, and no file of the  *)
(* ceiling's size or less is rejected for its size.                        *)
(***************************************************************************)
\* validateFileSize has answered for a file of the given size
Validated(size) ==
    call.fn = "validateFileSize" /\ call.returned /\ call.stats.size = size

C25_CeilingAccepted ==
    /\ Validated(100 * 1024 * 1024) => call.result = "ok"
    /\ Validated(100 * 1024 * 1024 + 1) => call.result = "FileSizeExceededError"
    /\ \A size \in FileSizes :
           Validated(size) /\ size <= 100 * 1024 * 1024 => call.result = "ok"

\* the file of exactly the ceiling has been accepted
C25_Witness == Validated(100 * 1024 * 1024) /\ call.result = "ok"

(***************************************************************************)
(* C26: getExistingFileHashes never throws: a listed document that lacks a *)
(* `path` entry, a `hash` entry or a name, or whose customMetadata is      *)
(* missing or holds malformed items in their place, contributes no entry   *)
(* to the returned mapping, and every well-formed document of the same     *)
(* listing contributes its entry.                                          *)
(***************************************************************************)
\* the metadata items of a document
ItemsOf(doc) ==
    IF "customMetadata" \in DOMAIN doc
    THEN { doc.customMetadata[j] : j \in 1..Len(doc.customMetadata) }
    ELSE {}

\* the values the document's entries for `key` carry
Entries(doc, key) ==
    { m.stringValue : m \in { i \in ItemsOf(doc) :
                                 /\ "key" \in DOMAIN i /\ i.key = key
                                 /\ "stringValue" \in DOMAIN i /\ i.stringValue # "" } }

\* an item without a key, or a path or hash item without a value
MalformedItem(m) ==
    \/ "key" \notin DOMAIN m
    \/ m.key \in {"path", "hash"} /\ ("stringValue" \notin DOMAIN m \/ m.stringValue = "")

\* the document lacks its name, its metadata, its path entry or its hash entry
Lacking(doc) ==
    \/ "name" \notin DOMAIN doc
    \/ "customMetadata" \notin DOMAIN doc
    \/ Entries(doc, "path") = {}
    \/ Entries(doc, "hash") = {}

WellFormed(doc) == ~Lacking(doc) /\ \A m \in ItemsOf(doc) : ~MalformedItem(m)

\* getExistingFileHashes has returned
Listed == call.fn = "getExistingFileHashes" /\ call.returned

Answered(fn) == call.fn = fn /\ Len(call.results) = 2

Workspace == load(configFile)

CreationFields == {"id", "path", "storeName", "smartSync", "startedAt"}

C28_UpdateFrame ==
    [][ Calls("updateOperation") =>
            LET id == call'.id
                partial == call'.updates
            IN  /\ DOMAIN Operations' = DOMAIN Operations
                /\ \A other \in DOMAIN Operations \ {id} :
                       Operations'[other] = Operations[other]
                /\ id \in DOMAIN Operations =>
                       /\ CreationFields \subseteq DOMAIN Operations'[id]
                       /\ DOMAIN Operations'[id] \ DOMAIN partial
                              = DOMAIN Operations[id] \ DOMAIN partial
                       /\ \A field \in DOMAIN Operations[id] \ DOMAIN partial :
                              Operations'[id][field] = Operations[id][field]
                /\ Workspace'.researchIds = Workspace.researchIds
                /\ Workspace'.fileSearchStores = Workspace.fileSearchStores ]_vars

\* a record has been updated while the file held a research ID and a
\* store-name mapping
C28_Witness ==
    /\ call.fn = "updateOperation"
    /\ call.result # <<>>
    /\ Workspace.researchIds # <<>>
    /\ DOMAIN Workspace.fileSearchStores # {}

(***************************************************************************)
(* C29: a directory job's record is `completed` only after uploadDirectory *)
(* has emitted its `complete` event, that is after every batch has         *)
(* settled: no job is `completed` while one of its transfers is            *)
(* outstanding, and completedAt is set when it becomes `completed`.        *)
(***************************************************************************)
\* the directory jobs whose record says completed
CompletedJobs ==
    { t \in DirectoryJobs : OperationOf(t).status = "completed" }

C29_CompletedAfterCompleteEvent ==
    /\ [](\A t \in CompletedJobs :
             /\ EventsOfType(t, "complete") # {}
             /\ Outstanding(t) = {}
             /\ \A k \in Files(t) : Settled(t, k)
             /\ "completedAt" \in DOMAIN OperationOf(t))
    /\ [][ \A t \in DirectoryJobs :
               (t \in CompletedJobs' /\ t \notin CompletedJobs) =>
                   /\ EventsOfType(t, "complete") # {}
                   /\ OperationOf(t)'.completedAt = clock ]_vars

\* a job of three files in one batch, one transferred, one skipped, one whose
\* transfer failed, has become completed
C29_Witness ==
    \E t \in CompletedJobs :
        /\ Len(tasks[t].allFiles) = 3
        /\ \E k \in Files(t) : tasks[t].promise[k] = "fulfilled"
        /\ \E k \in Files(t) : tasks[t].promise[k] = "skipped"
        /\ \E k \in Files(t) : tasks[t].promise[k] = "FileUploadError"

(***************************************************************************)
(* C30: with smart sync disabled the store is never listed, no             *)
(* `file_skipped` event is emitted, skippedFiles stays 0, and every        *)
(* scanned file goes through the upload pipeline, also a file of which the *)
(* store already holds an identical copy.                                  *)
(***************************************************************************)
\* the directory uploads called without smart sync
PlainRuns == { t \in DirectoryRuns : ~tasks[t].smartSync }

\* the store holds a document of file k's path and digest
HeldUnchanged(t, k) ==
    LET f == tasks[t].allFiles[k]
        existing == getExistingFileHashes([ok |-> TRUE, documents |-> tasks[t].store])
    IN  /\ f.name \in DOMAIN existing
        /\ existing[f.name].hash = getFileHash(f)

\* uploadFile was called for file k: it failed a check or called the transfer
ThroughPipeline(t, k) ==
    LET f == tasks[t].allFiles[k]
    IN  /\ tasks[t].promise[k] # "skipped"
        /\ IF Valid(f) THEN tasks[t].transferCalls[k] = 1
           ELSE tasks[t].promise[k] \in PerFileErrors

C30_NoSyncNoSkip ==
    \A t \in PlainRuns :
        /\ tasks[t].pc # "listing" /\ tasks[t].listing = "none"
        /\ EventsOfType(t, "file_skipped") = {}
        /\ tasks[t].skippedFiles = 0
        /\ \A e \in 1..Len(tasks[t].events) :
               "skippedFiles" \in DOMAIN tasks[t].events[e]
                   => tasks[t].events[e].skippedFiles = 0
        /\ Ended(t) => \A k \in Files(t) : ThroughPipeline(t, k)

\* an upload without smart sync has returned after transferring a file of
\* which the store held an identical copy
C30_Witness ==
    \E t \in PlainRuns :
        /\ Ended(t)
        /\ \E k \in Files(t) :
               /\ HeldUnchanged(t, k)
               /\ tasks[t].transferCalls[k] = 1
               /\ tasks[t].promise[k] = "fulfilled"

(***************************************************************************)
(* C31: in a directory upload the k-th `file_complete` event carries       *)
(* completedFiles = k, and each `file_skipped` event carries skippedFiles  *)
(* equal to the number of `file_skipped` events emitted so far, itself     *)
(* included, in whatever order the transfers of a batch settle.            *)
(***************************************************************************)
\* the number of events of the type among the first e events of t
EmittedUpTo(t, e, type) == Count({ x \in EventsOfType(t, type) : x <= e })

C31_RunningCounters ==
    \A t \in DirectoryRuns :
        /\ \A e \in EventsOfType(t, "file_complete") :
               tasks[t].events[e].completedFiles = EmittedUpTo(t, e, "file_complete")
        /\ \A e \in EventsOfType(t, "file_skipped") :
               tasks[t].events[e].skippedFiles = EmittedUpTo(t, e, "file_skipped")

\* two transfers of one batch have settled in the reverse of their dispatch
\* order, after a file was skipped
C31_Witness ==
    \E t \in DirectoryRuns :
        /\ EventsOfType(t, "file_skipped") # {}
        /\ \E e1, e2 \in EventsOfType(t, "file_complete") :
               /\ e1 < e2
               /\ tasks[t].events[e1].currentFileIndex > tasks[t].events[e2].currentFileIndex

Skips(t, k) == Count(EventsFor(t, k, "file_skipped"))

C33_HandledOnce ==
    \A t \in DirectoryRuns :
        \A k \in Files(t) :
            /\ tasks[t].transferCalls[k] <= 1
            /\ Count(EventsFor(t, k, "file_start")) = tasks[t].transferCalls[k]
            /\ Skips(t, k) + tasks[t].transferCalls[k] <= 1
            /\ Count(EventsFor(t, k, "file_complete"))
                   + Count(EventsFor(t, k, "file_error")) <= tasks[t].transferCalls[k]
            /\ Ended(t) =>
                   /\ Settled(t, k)
                   /\ Valid(tasks[t].allFiles[k])
                          => Skips(t, k) + tasks[t].transferCalls[k] = 1

\* an upload of three files in batches of one has returned after a failed
\* transfer that was not tried again, a skipped file and a transferred one
C33_Witness ==
    \E t \in DirectoryRuns :
        /\ Ended(t)
        /\ tasks[t].maxConcurrent = 1
        /\ Len(tasks[t].allFiles) = 3
        /\ \E k \in Files(t) :
               tasks[t].promise[k] = "FileUploadError" /\ tasks[t].transferCalls[k] = 1
        /\ \E k \in Files(t) : Skips(t, k) = 1
        /\ \E k \in Files(t) : tasks[t].promise[k] = "fulfilled"

(***************************************************************************)
(* C34: when two upload jobs run concurrently in one process their store   *)
(* updates interleave without lost updates: after any interleaving of      *)
(* their progress events each job's persisted record reflects exactly that *)
(* job's own events, and an update for one job never reverts or overwrites *)
(* a field of the other job's record.                                      *)
(***************************************************************************)
\* the record of directory job t counts the events of t and no others
ReflectsOwnEvents(t) ==
    LET op == OperationOf(t)
    IN  /\ op.id = tasks[t].opId
        /\ op.smartSync = tasks[t].smartSync
        /\ op.completedFiles = Count(EventsOfType(t, "file_complete"))
        /\ op.skippedFiles = Count(EventsOfType(t, "file_skipped"))
        /\ op.failedFiles = Count(EventsOfType(t, "file_error"))
        /\ Len(op.failedFilesList) = Count(EventsOfType(t, "file_error"))
        /\ EventsOfType(t, "start") # {} => op.totalFiles = Len(tasks[t].allFiles)

\* the step is a turn of job t
TurnOf(t) == tasks'[t] # tasks[t]

C34_NoLostUpdates ==
    /\ [](\A t \in Returned :
             /\ tasks[t].opId \in DOMAIN Operations
             /\ t \in DirectoryJobs => ReflectsOwnEvents(t))
    /\ [][ \A t \in TaskIds :
               TurnOf(t) =>
                   \A id \in DOMAIN Operations \ {tasks'[t].opId} :
                       /\ id \in DOMAIN Operations'
                       /\ Operations'[id] = Operations[id] ]_vars

\* two directory jobs have both completed a transfer, the second one started
\* after the first and ended before it
C34_Witness ==
    \E t1, t2 \in DirectoryJobs :
        /\ t1 # t2
        /\ OperationOf(t1).status = "completed" /\ OperationOf(t2).status = "completed"
        /\ OperationOf(t1).completedFiles = 1 /\ OperationOf(t2).completedFiles = 1
        /\ OperationOf(t1).startedAt < OperationOf(t2).startedAt
        /\ OperationOf(t2).completedAt < OperationOf(t1).completedAt

(***************************************************************************)
(* C35: when two separate processes write the same workspace file the      *)
(* last write wins: a load-modify-save of one process that interleaves     *)
(* with a save of the other drops the other's update, so that a job record *)
(* or a counter update written by one process can be missing from the      *)
(* file.                                                                   *)
(***************************************************************************)
\* the step is the save of process p
Saves(p) == call.procs[p].pc = "loaded" /\ call'.procs[p].pc = "idle"

\* after a save the file holds, for every other job, what the saving process
\* had read, whatever has been written since
C35_LastWriteWins ==
    [][ \A p \in ProcessIds :
            Saves(p) =>
                LET read == call.procs[p].config.uploadOperations
                IN  /\ DOMAIN Operations' = DOMAIN read \cup {JobOf[p]}
                    /\ \A id \in DOMAIN read \ {JobOf[p]} : Operations'[id] = read[id] ]_vars

\* the positions in call.saved of the writes of the record of id
WritesOf(id) == { j \in 1..Len(call.saved) : call.saved[j][1] = id }

\* the record written last for id is not what the file holds for it
Lost(id) ==
    /\ WritesOf(id) # {}
    /\ \/ id \notin DOMAIN Operations
       \/ \E j \in WritesOf(id) :
              /\ \A i \in WritesOf(id) : i <= j
              /\ call.saved[j][2] # Operations[id]

\* no process is inside a call, and the record one of them has written is
\* missing from the file or has lost its last update
C35_Witness ==
    /\ call.fn = "processes"
    /\ \A p \in ProcessIds : call.procs[p].pc = "idle"
    /\ \E id \in OpIds : Lost(id)

(***************************************************************************)
(* C36: in every state of a job the tool handler drives, the persisted     *)
(* failedFiles counter equals the length of the persisted failedFilesList, *)
(* although updateProgress writes failedFiles from the handler's own       *)
(* counter and addFailedFile writes it from the length of the list.        *)
(***************************************************************************)
C36_FailedCountIsListLength ==
    \A id \in DOMAIN Operations :
        Operations[id].failedFiles = Len(Operations[id].failedFilesList)

\* updateProgress has written the counters after addFailedFile had written
\* a failure: a file_complete event follows a file_error event
C36_Witness ==
    \E t \in DirectoryJobs :
        /\ OperationOf(t).failedFiles = 1
        /\ \E e1 \in EventsOfType(t, "file_error"), e2 \in EventsOfType(t, "file_complete") :
               e1 < e2

(***************************************************************************)
(* C37: in every state of a job the persisted counters are all 0 while the *)
(* status is `pending`, and completedFiles + skippedFiles + failedFiles    *)
(* <= totalFiles whenever the status is `in_progress`, `completed` or      *)
(* `failed`.                                                               *)
(***************************************************************************)
C37_CountersWithinTotal ==
    \A id \in DOMAIN Operations :
        LET op == Operations[id]
        IN  /\ op.status \in {"pending", "in_progress", "completed", "failed"}
            /\ op.status = "pending" => \A c \in Counters : op[c] = 0
            /\ op.status # "pending" =>
                   op.completedFiles + op.skippedFiles + op.failedFiles <= op.totalFiles

\* a job in progress whose three files have been counted, one of each
\* outcome
C37_Witness ==
    \E id \in DOMAIN Operations :
        /\ Operations[id].status = "in_progress"
        /\ Operations[id].totalFiles = 3
        /\ Operations[id].completedFiles = 1
        /\ Operations[id].skippedFiles = 1
        /\ Operations[id].failedFiles = 1

(***************************************************************************)
(* C38: uploadDirectory terminates, emitting `complete` and returning, for *)
(* every finite file list and every integer passed as                      *)
(* parallel.maxConcurrent, 0 and negative values included, provided every  *)
(* transfer settles.                                                       *)
(***************************************************************************)
C38_Terminates ==
    \A t \in TaskIds :
        (tasks[t].pc \in {"listing", "batch"}) ~>
            (Ended(t) /\ EventsOfType(t, "complete") # {})

(***************************************************************************)
(* C39: smart sync is idempotent: after a smart-sync directory upload in   *)
(* which every transfer succeeded, an immediately repeated smart-sync      *)
(* upload of the unchanged directory into the same store issues no         *)
(* transfer call, also when the store lists two documents of one path with *)
(* different hashes, in whatever order the listing returns them.           *)
(***************************************************************************)
C39_Idempotent ==
    (call.fn = "sync" /\ call.run = 2 /\ call.clean) =>
        \A t \in TaskIds : \A k \in Files(t) : tasks[t].transferCalls[k] = 0

(***************************************************************************)
(* C40: if the caller's progress callback throws while it handles a        *)
(* file_complete or file_skipped event, the file is still counted in       *)
(* exactly one of completedFiles, skippedFiles and failedFiles: the        *)
(* counters of the `complete` event sum to totalFiles, and a file whose    *)
(* transfer succeeded is not reported as failed.                           *)
(***************************************************************************)
\* the callback of invocation t threw on an event of file k
ThrewFor(t, k) ==
    \E e \in EventsFor(t, k, "file_complete") \cup EventsFor(t, k, "file_skipped") :
        onProgressThrows([t |-> tasks[t]], tasks[t].events[e])

C40_ThrowCountedOnce ==
    \A t \in TaskIds :
        /\ \A e \in EventsOfType(t, "complete") :
               LET ev == tasks[t].events[e]
               IN  ev.completedFiles + ev.skippedFiles + ev.failedFiles = ev.totalFiles
        /\ \A k \in Files(t) :
               (ThrewFor(t, k) /\ EventsFor(t, k, "file_complete") # {}) =>
                   /\ EventsFor(t, k, "file_error") = {}
                   /\ tasks[t].promise[k] \notin {"FileUploadError", CallbackError}

====
